---- MODULE Spec2Model ----
(***************************************************************************)
(* Model of the C++ side of multijob: the command-line decoder             *)
(* (parse_commandline, separate_argv, split_arg), the one-shot extraction  *)
(* buffer Args (get_s, get_i, get_u, get_d, get_b, no_further_arguments)   *)
(* and the string conversions they rest on.                                *)
(*                                                                         *)
(* A std::string is a sequence of one-character strings, so that find,     *)
(* substr, operator== and operator< are computed on the characters.        *)
(* Integers wider than 31 bits are little-endian sequences of 16-bit       *)
(* limbs, so that unsigned long and the 32-bit ID keep their widths.       *)
(***************************************************************************)
EXTENDS Integers, Sequences, FiniteSets, TLC

\* ------------------------------------------------------------------------
\* Bounds of the model
\* ------------------------------------------------------------------------

\* greatest number of tokens before the separator in a generated argv
MaxSpecial == 2

\* greatest number of tokens after the separator in a generated argv
MaxNormal == 2

\* ------------------------------------------------------------------------
\* Characters and strings
\* ------------------------------------------------------------------------

\* The printable ASCII characters in code order, starting at the space (32);
\* the grave accent (96) is held by a placeholder that no string contains.
AsciiPrintable ==
    << " ", "!", "\"", "#", "$", "%", "&", "'", "(", ")", "*", "+", ",", "-",
       ".", "/", "0", "1", "2", "3", "4", "5", "6", "7", "8", "9", ":", ";",
       "<", "=", ">", "?", "@", "A", "B", "C", "D", "E", "F", "G", "H", "I",
       "J", "K", "L", "M", "N", "O", "P", "Q", "R", "S", "T", "U", "V", "W",
       "X", "Y", "Z", "[", "\\", "]", "^", "_", "grave", "a", "b", "c", "d", "e",
       "f", "g", "h", "i", "j", "k", "l", "m", "n", "o", "p", "q", "r", "s",
       "t", "u", "v", "w", "x", "y", "z", "{", "|", "}", "~" >>

\* The code of a character (unsigned char value).
Ord(c) == 31 + (CHOOSE i \in 1..Len(AsciiPrintable) : AsciiPrintable[i] = c)

\* std::string::operator< : lexicographic on the character codes, a proper
\* prefix being smaller.
RECURSIVE StrLess(_, _)
StrLess(a, b) ==
    IF b = << >> THEN FALSE
    ELSE IF a = << >> THEN TRUE
    ELSE IF Head(a) = Head(b) THEN StrLess(Tail(a), Tail(b))
    ELSE Ord(Head(a)) < Ord(Head(b))

\* std::string::find(char): the 1-based position of the first occurrence of
\* c in s, 0 standing for npos.
find(s, c) ==
    IF \E i \in 1..Len(s) : s[i] = c
    THEN CHOOSE i \in 1..Len(s) : s[i] = c /\ \A j \in 1..(i - 1) : s[j] # c
    ELSE 0

\* std::string::substr(pos): the characters from the 1-based position on.
substr_from(s, pos) == SubSeq(s, pos, Len(s))

\* The keys of a map as a set.
Keys(m) == DOMAIN m

\* The empty std::unordered_map.
EmptyMap == [k \in {} |-> << >>]

\* Mutant of MapPut: a key that is in the map keeps its value.
MapPut_keeps_first(m, k, v) ==
    [x \in (DOMAIN m) \cup {k} |-> IF x \in DOMAIN m THEN m[x] ELSE v]

\* operator[] assignment of std::unordered_map: insert or overwrite.
MapPut(m, k, v) == [x \in (DOMAIN m) \cup {k} |-> IF x = k THEN v ELSE m[x]]

\* Mutant of MapErase: the erase leaves the map as it is.
MapErase_keeps(m, k) == m

\* Mutant of MapErase: the erase empties the map.
MapErase_clears(m, k) == [x \in {} |-> m[x]]

\* std::unordered_map::erase of one key.
MapErase(m, k) == [x \in (DOMAIN m) \ {k} |-> m[x]]

\* Mutant of SortKeys: the comparison of the sort is turned around.
RECURSIVE SortKeys_descending(_)
SortKeys_descending(S) ==
    IF S = {} THEN << >>
    ELSE LET greatest == CHOOSE k \in S : \A o \in S \ {k} : StrLess(o, k)
         IN  << greatest >> \o SortKeys_descending(S \ {greatest})

\* std::sort over the gathered keys: the ascending sequence of the set.
RECURSIVE SortKeys(_)
SortKeys(S) ==
    IF S = {} THEN << >>
    ELSE LET least == CHOOSE k \in S : \A o \in S \ {k} : StrLess(k, o)
         IN  << least >> \o SortKeys(S \ {least})

\* ------------------------------------------------------------------------
\* Fixed-width integers
\* ------------------------------------------------------------------------

\* One limb holds 16 bits.
LimbBase == 2 ^ 16

\* Width of unsigned long (and of long) on the LP64 targets of the Makefile.
ULongBits == 64

\* Width of multijob::ID (std::uint32_t), of int and of unsigned int.
IDBits == 32

ULongLimbs == ULongBits \div 16

IDLimbs == IDBits \div 16

\* The number zero in n limbs.
ZeroLimbs(n) == [i \in 1..n |-> 0]

\* x * base + carry on the limbs from position i on; the carry that leaves
\* the most significant limb is reported.
RECURSIVE MulAddFrom(_, _, _, _)
MulAddFrom(x, i, base, carry) ==
    IF i > Len(x) THEN [limbs |-> << >>, carry |-> carry]
    ELSE LET t    == x[i] * base + carry
             rest == MulAddFrom(x, i + 1, base, t \div LimbBase)
         IN  [limbs |-> << t % LimbBase >> \o rest.limbs, carry |-> rest.carry]

\* x * base + digit in the width of x, with the overflow flag.
MulAdd(x, base, digit) ==
    LET r == MulAddFrom(x, 1, base, digit)
    IN  [limbs |-> r.limbs, overflow |-> r.carry # 0]

\* Unsigned negation in the width of x (two's complement): ~x + 1.
Negate(x) ==
    MulAddFrom([i \in 1..Len(x) |-> LimbBase - 1 - x[i]], 1, 1, 1).limbs

\* The greatest value of the width of x (ULONG_MAX for unsigned long).
MaxLimbs(n) == [i \in 1..n |-> LimbBase - 1]

\* Conversion of an unsigned long to the 32-bit ID: the low 32 bits.
ID(x) == SubSeq(x, 1, IDLimbs)

\* ------------------------------------------------------------------------
\* strtoul / strtol as used by std::stoul and std::stoi
\* ------------------------------------------------------------------------

\* isspace in the C locale.
IsSpace(c) == c \in {" ", "\t", "\n", "\r", "\f"}

\* The value of a character as a digit, 99 when it is none.
DigitVal(c) ==
    CASE c \in {"0","1","2","3","4","5","6","7","8","9"} -> Ord(c) - 48
      [] c \in {"a","b","c","d","e","f","g","h","i","j","k","l","m","n","o",
                "p","q","r","s","t","u","v","w","x","y","z"} -> Ord(c) - 87
      [] c \in {"A","B","C","D","E","F","G","H","I","J","K","L","M","N","O",
                "P","Q","R","S","T","U","V","W","X","Y","Z"} -> Ord(c) - 55
      [] OTHER -> 99

IsDigitIn(s, i, base) == i <= Len(s) /\ DigitVal(s[i]) < base

\* The first position at or after i that holds no white space.
RECURSIVE SkipSpace(_, _)
SkipSpace(s, i) ==
    IF i <= Len(s) /\ IsSpace(s[i]) THEN SkipSpace(s, i + 1) ELSE i

\* The first position at or after i that holds no digit of the base.
RECURSIVE SkipDigits(_, _, _)
SkipDigits(s, i, base) ==
    IF IsDigitIn(s, i, base) THEN SkipDigits(s, i + 1, base) ELSE i

\* The digits s[i..stop-1] read in the base into the width of acc; once the
\* value leaves the width the overflow flag stays set.
RECURSIVE Accumulate(_, _, _, _, _, _)
Accumulate(s, i, stop, base, acc, over) ==
    IF i >= stop THEN [limbs |-> acc, overflow |-> over]
    ELSE LET r == MulAdd(acc, base, DigitVal(s[i]))
         IN  Accumulate(s, i + 1, stop, base, r.limbs, over \/ r.overflow)

\* The scan of strtoul/strtol, stage by stage: white space, an optional
\* sign, the base prefix (base 0 detects "0x"/"0X" before a hex digit, else a
\* leading "0" as octal, else decimal) and the longest run of digits.  conv
\* is FALSE when no digit was read; consumed is the number of characters up
\* to the end pointer; the magnitude is read into unsigned long.

\* The digits s[start..stop-1] of base b were scanned.
IntegerScanned(s, b, start, stop, neg, acc) ==
    [conv     |-> stop > start,
     consumed |-> IF stop > start THEN stop - 1 ELSE 0,
     neg      |-> neg,
     mag      |-> acc.limbs,
     overflow |-> acc.overflow]

IntegerRun(s, b, start, stop, neg) ==
    IntegerScanned(s, b, start, stop, neg,
                   Accumulate(s, start, stop, b, ZeroLimbs(ULongLimbs), FALSE))

\* The digits of base b start at position start.
IntegerDigits(s, b, start, neg) ==
    IntegerRun(s, b, start, SkipDigits(s, start, b), neg)

\* The sign is behind; q is the position after it.
IntegerPrefix(s, base, q, neg) ==
    IF /\ base \in {0, 16}
       /\ q + 2 <= Len(s)
       /\ s[q] = "0"
       /\ s[q + 1] \in {"x", "X"}
       /\ DigitVal(s[q + 2]) < 16
    THEN IntegerDigits(s, 16, q + 2, neg)
    ELSE IF base # 0 THEN IntegerDigits(s, base, q, neg)
    ELSE IF q <= Len(s) /\ s[q] = "0" THEN IntegerDigits(s, 8, q, neg)
    ELSE IntegerDigits(s, 10, q, neg)

\* The white space is behind; p is the position after it.
IntegerSign(s, base, p) ==
    IF p <= Len(s) /\ s[p] \in {"+", "-"}
    THEN IntegerPrefix(s, base, p + 1, s[p] = "-")
    ELSE IntegerPrefix(s, base, p, FALSE)

ScanInteger(s, base) == IntegerSign(s, base, SkipSpace(s, 1))

\* std::stoul(str, pos, base): std::invalid_argument when nothing converts,
\* std::out_of_range when strtoul reports ERANGE; a minus sign negates the
\* magnitude in unsigned long and is no error.
strtoul(r) ==
    IF ~r.conv THEN [status |-> "invalid_argument", value |-> ZeroLimbs(ULongLimbs), consumed |-> 0]
    ELSE IF r.overflow THEN [status |-> "out_of_range", value |-> MaxLimbs(ULongLimbs), consumed |-> r.consumed]
    ELSE [status   |-> "ok",
          value    |-> IF r.neg THEN Negate(r.mag) ELSE r.mag,
          consumed |-> r.consumed]

stoul(s, base) == strtoul(ScanInteger(s, base))

\* Whether a magnitude with the sign lies in the range of int.
FitsInt(neg, mag) ==
    /\ \A i \in (IDLimbs + 1)..Len(mag) : mag[i] = 0
    /\ \/ mag[2] < LimbBase \div 2
       \/ neg /\ mag[2] = LimbBase \div 2 /\ mag[1] = 0

\* The int denoted by a sign and a magnitude that fits.
ToInt(neg, mag) ==
    IF neg /\ mag[2] = LimbBase \div 2
    THEN -((LimbBase \div 2 - 1) * LimbBase + (LimbBase - 1)) - 1
    ELSE IF neg THEN -(mag[2] * LimbBase + mag[1])
    ELSE mag[2] * LimbBase + mag[1]

\* std::stoi(str, pos, base): strtol, then std::out_of_range when ERANGE was
\* reported or the long does not fit int.
strtol(r) ==
    IF ~r.conv THEN [status |-> "invalid_argument", value |-> 0, consumed |-> 0]
    ELSE IF r.overflow \/ ~FitsInt(r.neg, r.mag)
         THEN [status |-> "out_of_range", value |-> 0, consumed |-> r.consumed]
    ELSE [status |-> "ok", value |-> ToInt(r.neg, r.mag), consumed |-> r.consumed]

stoi(s, base) == strtol(ScanInteger(s, base))

\* ------------------------------------------------------------------------
\* strtod as used by std::stod
\* ------------------------------------------------------------------------

\* Whether the letters of w stand at position i of s, in either case.
MatchWord(s, i, w) ==
    /\ i + Len(w) - 1 <= Len(s)
    /\ \A k \in 1..Len(w) :
          /\ DigitVal(s[i + k - 1]) = DigitVal(w[k])
          /\ DigitVal(w[k]) >= 10

\* A short run of decimal digits as a number, saturating at 100000 (an
\* exponent that large is out of range whatever its exact value).
RECURSIVE SmallNat(_, _, _, _)
SmallNat(s, i, stop, acc) ==
    IF i >= stop THEN acc
    ELSE LET n == acc * 10 + DigitVal(s[i])
         IN  SmallNat(s, i + 1, stop, IF n > 100000 THEN 100000 ELSE n)

RECURSIVE StripLeadingZeros(_)
StripLeadingZeros(d) ==
    IF d # << >> /\ Head(d) = "0" THEN StripLeadingZeros(Tail(d)) ELSE d

\* The number of trailing "0" characters of a digit string.
RECURSIVE TrailingZeros(_)
TrailingZeros(d) ==
    IF d # << >> /\ d[Len(d)] = "0"
    THEN 1 + TrailingZeros(SubSeq(d, 1, Len(d) - 1))
    ELSE 0

\* The scan of strtod in the C locale, stage by stage: white space, an
\* optional sign, then "infinity"/"inf", "nan", a hexadecimal mantissa with
\* an optional binary exponent, or a decimal mantissa with an optional
\* decimal exponent.  The value is kept exactly, as the significant digits
\* and the exponent of the radix: value = digits * radix^exp (radix 10, or 2
\* for hexadecimal input), digits without leading or trailing zeros.

DoubleScanned(conv, consumed, kind, neg, digits, exp) ==
    [conv |-> conv, consumed |-> consumed, kind |-> kind, neg |-> neg,
     digits |-> digits, exp |-> exp]

\* The significant digits are known; tz trailing zeros were cut off, nfrac
\* digits stood behind the point, expo is the written exponent.
DoubleNormal(base, digits, tz, nfrac, stop, expo, neg) ==
    DoubleScanned(TRUE, stop - 1, IF base = 16 THEN "hex" ELSE "dec", neg, digits,
                  IF digits = << >> THEN 0
                  ELSE expo + (IF base = 16 THEN 4 ELSE 1) * (tz - nfrac))

\* all holds the digits of the mantissa, those behind the point included.
DoubleDigits(base, all, tz, nfrac, stop, expo, neg) ==
    DoubleNormal(base, StripLeadingZeros(SubSeq(all, 1, Len(all) - tz)),
                 tz, nfrac, stop, expo, neg)

DoubleValue(base, all, nfrac, stop, expo, neg) ==
    DoubleDigits(base, all, TrailingZeros(all), nfrac, stop, expo, neg)

\* The exponent digits are s[e1..e2-1]; without any, the exponent mark is
\* not part of the number.
DoubleExponentRun(s, base, all, nfrac, m2, e1, e2, eNeg, neg) ==
    IF e2 > e1
    THEN DoubleValue(base, all, nfrac, e2,
                     IF eNeg THEN -SmallNat(s, e1, e2, 0) ELSE SmallNat(s, e1, e2, 0),
                     neg)
    ELSE DoubleValue(base, all, nfrac, m2, 0, neg)

DoubleExponentDigits(s, base, all, nfrac, m2, e1, eNeg, neg) ==
    DoubleExponentRun(s, base, all, nfrac, m2, e1, SkipDigits(s, e1, 10), eNeg, neg)

\* The mantissa ends before position m2.
DoubleExponent(s, base, all, nfrac, m2, neg) ==
    IF all = << >> THEN DoubleScanned(FALSE, 0, "none", FALSE, << >>, 0)
    ELSE IF m2 <= Len(s) /\ s[m2] \in (IF base = 16 THEN {"p", "P"} ELSE {"e", "E"})
    THEN IF m2 + 1 <= Len(s) /\ s[m2 + 1] \in {"+", "-"}
         THEN DoubleExponentDigits(s, base, all, nfrac, m2, m2 + 2, s[m2 + 1] = "-", neg)
         ELSE DoubleExponentDigits(s, base, all, nfrac, m2, m2 + 1, FALSE, neg)
    ELSE DoubleValue(base, all, nfrac, m2, 0, neg)

\* The digits behind the point are s[f0..m2-1].
DoubleFractionRun(s, base, m0, m1, f0, m2, neg) ==
    DoubleExponent(s, base, SubSeq(s, m0, m1 - 1) \o SubSeq(s, f0, m2 - 1),
                   m2 - f0, m2, neg)

DoubleFraction(s, base, m0, m1, f0, neg) ==
    DoubleFractionRun(s, base, m0, m1, f0, SkipDigits(s, f0, base), neg)

\* The digits before the point are s[m0..m1-1].
DoubleIntegerRun(s, base, m0, m1, neg) ==
    IF m1 <= Len(s) /\ s[m1] = "."
    THEN DoubleFraction(s, base, m0, m1, m1 + 1, neg)
    ELSE DoubleFraction(s, base, m0, m1, m1, neg)

DoubleMantissa(s, base, m0, neg) ==
    DoubleIntegerRun(s, base, m0, SkipDigits(s, m0, base), neg)

\* The sign is behind; q is the position after it.
DoubleBody(s, q, neg) ==
    IF MatchWord(s, q, << "i", "n", "f", "i", "n", "i", "t", "y" >>)
    THEN DoubleScanned(TRUE, q + 7, "inf", neg, << >>, 0)
    ELSE IF MatchWord(s, q, << "i", "n", "f" >>)
    THEN DoubleScanned(TRUE, q + 2, "inf", neg, << >>, 0)
    ELSE IF MatchWord(s, q, << "n", "a", "n" >>)
    THEN DoubleScanned(TRUE, q + 2, "nan", neg, << >>, 0)
    ELSE IF /\ q + 2 <= Len(s)
            /\ s[q] = "0"
            /\ s[q + 1] \in {"x", "X"}
            /\ \/ DigitVal(s[q + 2]) < 16
               \/ s[q + 2] = "." /\ IsDigitIn(s, q + 3, 16)
    THEN DoubleMantissa(s, 16, q + 2, neg)
    ELSE DoubleMantissa(s, 10, q, neg)

\* The white space is behind; p is the position after it.
DoubleSign(s, p) ==
    IF p <= Len(s) /\ s[p] \in {"+", "-"}
    THEN DoubleBody(s, p + 1, s[p] = "-")
    ELSE DoubleBody(s, p, FALSE)

ScanDouble(s) == DoubleSign(s, SkipSpace(s, 1))

\* Whether strtod reports ERANGE: the magnitude lies beyond the greatest
\* double (about 1.8e308 = 2^1024) or below the least subnormal one (about
\* 4.9e-324 = 2^-1074).  The decimal test is made on the power of ten, so a
\* value between the greatest double and 1e309 is not told apart.
DoubleOutOfRange(r) ==
    /\ r.kind \in {"dec", "hex"}
    /\ r.digits # << >>
    /\ IF r.kind = "dec"
       THEN Len(r.digits) + r.exp > 309 \/ Len(r.digits) + r.exp < -323
       ELSE 4 * Len(r.digits) + r.exp > 1027 \/ 4 * Len(r.digits) + r.exp < -1074

\* The double that never reaches the caller.
NoDouble == [kind |-> "none", neg |-> FALSE, digits |-> << >>, exp |-> 0]

\* std::stod(str, pos): std::invalid_argument when nothing converts,
\* std::out_of_range when strtod reports ERANGE.
strtod(r) ==
    IF ~r.conv THEN [status |-> "invalid_argument", value |-> NoDouble, consumed |-> 0]
    ELSE IF DoubleOutOfRange(r)
         THEN [status |-> "out_of_range", value |-> NoDouble, consumed |-> r.consumed]
    ELSE [status |-> "ok",
          value |-> [kind |-> r.kind, neg |-> r.neg, digits |-> r.digits, exp |-> r.exp],
          consumed |-> r.consumed]

stod(s) == strtod(ScanDouble(s))

\* ------------------------------------------------------------------------
\* Errors
\* ------------------------------------------------------------------------

\* Every failure is a MultijobError thrown by MULTIJOB_ERROR; the kind names
\* the throw site, name/arg/keys are the texts streamed into the message and
\* detail is the wording that tells the messages of one site apart.
Error(kind, name, arg, keys, detail) ==
    [kind |-> kind, name |-> name, arg |-> arg, keys |-> keys, detail |-> detail]

NoError == Error("none", << >>, << >>, << >>, "none")

\* ------------------------------------------------------------------------
\* conversion.cpp
\* ------------------------------------------------------------------------

\* Mutant of convert: input of which a tail was left unconsumed is accepted.
convert_accepts_tail(type_descr, name, s, r, none) ==
    IF r.status = "invalid_argument"
    THEN [ok |-> FALSE, value |-> none,
          err |-> Error("ConversionError", name, s, << >>, "is not")]
    ELSE IF r.status = "out_of_range"
    THEN [ok |-> FALSE, value |-> none,
          err |-> Error("ConversionError", name, s, << >>, "is out of range")]
    ELSE [ok |-> TRUE, value |-> r.value, err |-> NoError]

\* convert: run the converter (r is what converter(s, &consumed_chars)
\* yields), turn its two exceptions into errors and reject input of which a
\* tail was left unconsumed.  The message says "is not <type_descr>" or "is
\* out of range"; none stands for the result that is never returned.
convert(type_descr, name, s, r, none) ==
    IF r.status = "invalid_argument"
    THEN [ok |-> FALSE, value |-> none,
          err |-> Error("ConversionError", name, s, << >>, "is not")]
    ELSE IF r.status = "out_of_range"
    THEN [ok |-> FALSE, value |-> none,
          err |-> Error("ConversionError", name, s, << >>, "is out of range")]
    ELSE IF r.consumed # Len(s)
    THEN [ok |-> FALSE, value |-> none,
          err |-> Error("ConversionError", name, s, << >>, "is not")]
    ELSE [ok |-> TRUE, value |-> r.value, err |-> NoError]

convert_str_to_i(name, s) ==
    convert("an integer number", name, s, stoi(s, 0), 0)

convert_str_to_ul(name, s) ==
    convert("an unsigned integer number", name, s, stoul(s, 0), ZeroLimbs(ULongLimbs))

convert_str_to_ld(name, s) ==
    convert("a floating point number", name, s, stod(s), NoDouble)

\* The unsigned int reader behind get_u: an unsigned integer, a negative
\* number and a value beyond unsigned int being rejected.
strtou(r) ==
    IF ~r.conv THEN [status |-> "invalid_argument", value |-> ZeroLimbs(IDLimbs), consumed |-> 0]
    ELSE IF r.overflow
            \/ (r.neg /\ r.mag # ZeroLimbs(ULongLimbs))
            \/ \E i \in (IDLimbs + 1)..ULongLimbs : r.mag[i] # 0
         THEN [status |-> "out_of_range", value |-> ZeroLimbs(IDLimbs), consumed |-> r.consumed]
    ELSE [status |-> "ok", value |-> ID(r.mag), consumed |-> r.consumed]

stou(s, base) == strtou(ScanInteger(s, base))

convert_str_to_u(name, s) ==
    convert("an unsigned integer number", name, s, stou(s, 0), ZeroLimbs(IDLimbs))

\* ------------------------------------------------------------------------
\* multijob.cpp
\* ------------------------------------------------------------------------

\* Mutant of split_arg: the token is split at its last "=" (rfind).
split_arg_at_last(arg) ==
    LET eqs     == { i \in 1..Len(arg) : arg[i] = "=" }
        sep_pos == IF eqs = {} THEN 0 ELSE CHOOSE i \in eqs : \A j \in eqs : j <= i
    IN  IF sep_pos = 0
        THEN [ok |-> FALSE, key |-> << >>, value |-> << >>,
              err |-> Error("MalformedArgumentError", << >>, arg, << >>, "none")]
        ELSE [ok |-> TRUE,
              key |-> SubSeq(arg, 1, sep_pos - 1),
              value |-> SubSeq(arg, sep_pos + 1, Len(arg)),
              err |-> NoError]

\* split_arg: key and value around the first "=".
split_arg(arg) ==
    LET sep_pos == find(arg, "=")
    IN  IF sep_pos = 0
        THEN [ok |-> FALSE, key |-> << >>, value |-> << >>,
              err |-> Error("MalformedArgumentError", << >>, arg, << >>, "none")]
        ELSE [ok |-> TRUE,
              key |-> SubSeq(arg, 1, sep_pos - 1),
              value |-> substr_from(arg, sep_pos + 1),
              err |-> NoError]

\* One loop of separate_argv: from position i to argc, split every token into
\* the map; the loop over the special arguments breaks at the separator.
\* pos is the position the loop stopped at.
RECURSIVE ArgvLoop(_, _, _, _, _, _)
ArgvLoop(argc, argv, i, sep, breakAtSep, map) ==
    IF i > argc THEN [ok |-> TRUE, map |-> map, pos |-> i, err |-> NoError]
    ELSE IF breakAtSep /\ argv[i] = sep
    THEN [ok |-> TRUE, map |-> map, pos |-> i, err |-> NoError]
    ELSE LET kv == split_arg(argv[i])
         IN  IF ~kv.ok THEN [ok |-> FALSE, map |-> map, pos |-> i, err |-> kv.err]
             ELSE ArgvLoop(argc, argv, i + 1, sep, breakAtSep,
                           MapPut(map, kv.key, kv.value))

\* separate_argv: the map of the tokens before the first separator and the
\* map of the tokens after it.
\* What separate_argv returns once both loops have run.
Separated(special, normal) ==
    IF ~special.ok
    THEN [ok |-> FALSE, special_args |-> EmptyMap, normal_args |-> EmptyMap, err |-> special.err]
    ELSE IF ~normal.ok
    THEN [ok |-> FALSE, special_args |-> EmptyMap, normal_args |-> EmptyMap, err |-> normal.err]
    ELSE [ok |-> TRUE, special_args |-> special.map, normal_args |-> normal.map, err |-> NoError]

\* Mutant of SeparateNormal: the second loop stops at a separator too.
SeparateNormal_stops_at_separator(argc, argv, sep, special) ==
    Separated(special,
              ArgvLoop(argc, argv,
                       IF special.pos <= argc THEN special.pos + 1 ELSE special.pos,
                       sep, TRUE, EmptyMap))

\* The loop over the normal arguments starts behind the separator the first
\* loop stopped at, if it stopped at one.
SeparateNormal(argc, argv, sep, special) ==
    Separated(special,
              ArgvLoop(argc, argv,
                       IF special.pos <= argc THEN special.pos + 1 ELSE special.pos,
                       sep, FALSE, EmptyMap))

\* Mutant of separate_argv: an argument vector without separator is refused.
separate_argv_requires_separator(argc, argv, sep) ==
    IF \A i \in 1..argc : argv[i] # sep
    THEN [ok |-> FALSE, special_args |-> EmptyMap, normal_args |-> EmptyMap,
          err |-> Error("MalformedArgumentError", << >>, sep, << >>, "none")]
    ELSE SeparateNormal(argc, argv, sep, ArgvLoop(argc, argv, 1, sep, TRUE, EmptyMap))

\* separate_argv: the first loop runs from the first token on.
separate_argv(argc, argv, sep) ==
    SeparateNormal(argc, argv, sep, ArgvLoop(argc, argv, 1, sep, TRUE, EmptyMap))

\* The separator of the two regions.
Separator == << "-", "-" >>

\* JobArgvConfig as default-constructed.
DefaultConfig ==
    [job_id_key        |-> << "-", "-", "i", "d" >>,
     repetition_id_key |-> << "-", "-", "r", "e", "p" >>]

\* What parse_commandline yields when it throws.
ParseFailure(err) ==
    [ok |-> FALSE, job_id |-> ZeroLimbs(IDLimbs), repetition_id |-> ZeroLimbs(IDLimbs),
     args |-> EmptyMap, err |-> err]

\* Mutant of ParseConverted: the repetition id is judged before the job id.
ParseConverted_repetition_first(job, rep, normal_args) ==
    IF ~rep.ok
    THEN ParseFailure([rep.err EXCEPT !.kind = "InvalidIdError"])
    ELSE IF ~job.ok
    THEN ParseFailure([job.err EXCEPT !.kind = "InvalidIdError"])
    ELSE [ok |-> TRUE,
          job_id |-> ID(job.value),
          repetition_id |-> ID(rep.value),
          args |-> normal_args,
          err |-> NoError]

\* parse_commandline from the conversion of the two ids on.
ParseConverted(job, rep, normal_args) ==
    IF ~job.ok
    THEN ParseFailure([job.err EXCEPT !.kind = "InvalidIdError"])
    ELSE IF ~rep.ok
    THEN ParseFailure([rep.err EXCEPT !.kind = "InvalidIdError"])
    ELSE [ok |-> TRUE,
          job_id |-> ID(job.value),
          repetition_id |-> ID(rep.value),
          args |-> normal_args,
          err |-> NoError]

\* Mutant of ParseUnknown: special arguments that are left over are ignored.
ParseUnknown_ignored(job_id_str, repetition_id_str, special_args, normal_args) ==
    ParseConverted(convert_str_to_ul(<< "j", "o", "b", "_", "i", "d" >>, job_id_str),
                   convert_str_to_ul(<< "r", "e", "p", "e", "t", "i", "t", "i", "o", "n", "_", "i", "d" >>,
                                     repetition_id_str),
                   normal_args)

\* parse_commandline from the check for unknown special arguments on:
\* special_args is the map after both id keys were erased.
ParseUnknown(job_id_str, repetition_id_str, special_args, normal_args) ==
    IF Keys(special_args) # {}
    THEN ParseFailure(Error("UnknownSpecialArgumentError",
                            << >>, << >>, SortKeys(Keys(special_args)), "none"))
    ELSE ParseConverted(convert_str_to_ul(<< "j", "o", "b", "_", "i", "d" >>, job_id_str),
                        convert_str_to_ul(<< "r", "e", "p", "e", "t", "i", "t", "i", "o", "n", "_", "i", "d" >>,
                                          repetition_id_str),
                        normal_args)

\* Mutant of ParseRepetitionId: a missing repetition id is read as "0".
ParseRepetitionId_optional(job_id_str, special_args, normal_args, config) ==
    IF config.repetition_id_key \notin Keys(special_args)
    THEN ParseUnknown(job_id_str, << "0" >>, special_args, normal_args)
    ELSE ParseUnknown(job_id_str,
                      special_args[config.repetition_id_key],
                      MapErase(special_args, config.repetition_id_key),
                      normal_args)

\* parse_commandline from the lookup of the repetition id on: special_args
\* is the map after the job-id key was erased.
ParseRepetitionId(job_id_str, special_args, normal_args, config) ==
    IF config.repetition_id_key \notin Keys(special_args)
    THEN ParseFailure(Error("MissingSpecialArgumentError",
                            config.repetition_id_key, << >>, << >>, "repetition_id"))
    ELSE ParseUnknown(job_id_str,
                      special_args[config.repetition_id_key],
                      MapErase(special_args, config.repetition_id_key),
                      normal_args)

\* Mutant of ParseJobId: the job id is looked up under the default key.
ParseJobId_default_key(sepd, config) ==
    IF ~sepd.ok THEN ParseFailure(sepd.err)
    ELSE IF DefaultConfig.job_id_key \notin Keys(sepd.special_args)
    THEN ParseFailure(Error("MissingSpecialArgumentError",
                            DefaultConfig.job_id_key, << >>, << >>, "job_id"))
    ELSE ParseRepetitionId(sepd.special_args[DefaultConfig.job_id_key],
                           MapErase(sepd.special_args, DefaultConfig.job_id_key),
                           sepd.normal_args, config)

\* parse_commandline from the lookup of the job id on.
ParseJobId(sepd, config) ==
    IF ~sepd.ok THEN ParseFailure(sepd.err)
    ELSE IF config.job_id_key \notin Keys(sepd.special_args)
    THEN ParseFailure(Error("MissingSpecialArgumentError",
                            config.job_id_key, << >>, << >>, "job_id"))
    ELSE ParseRepetitionId(sepd.special_args[config.job_id_key],
                           MapErase(sepd.special_args, config.job_id_key),
                           sepd.normal_args, config)

\* Mutant of parse_commandline: a first element with an "=" is taken for a
\* token.
parse_commandline_reads_token_like_argv0(argc, argv, config) ==
    IF find(argv[1], "=") = 0
    THEN ParseJobId(separate_argv(argc - 1, Tail(argv), Separator), config)
    ELSE ParseJobId(separate_argv(argc, argv, Separator), config)

\* Mutant of parse_commandline: argv[0] is not skipped.
parse_commandline_keeps_argv0(argc, argv, config) ==
    ParseJobId(separate_argv(argc, argv, Separator), config)

\* parse_commandline: skip the program name, separate the two regions, take
\* the job id and the repetition id out of the special map, reject what is
\* left in it, convert both ids.
parse_commandline(argc, argv, config) ==
    ParseJobId(separate_argv(argc - 1, Tail(argv), Separator), config)

\* ------------------------------------------------------------------------
\* Args.cpp
\* ------------------------------------------------------------------------

\* Args::no_further_arguments: nothing when the map is empty, else the
\* error that lists the sorted keys.
no_further_arguments(m) ==
    IF Keys(m) = {} THEN [ok |-> TRUE, err |-> NoError]
    ELSE [ok |-> FALSE,
          err |-> Error("UnconsumedArgumentsError", << >>, << >>, SortKeys(Keys(m)), "none")]

\* Mutant of get_s: the value is returned but the key is not erased.
get_s_keeps_key(m, name) ==
    IF name \notin DOMAIN m
    THEN [ok |-> FALSE, value |-> << >>, args |-> m,
          err |-> Error("MissingParameterError", name, << >>, << >>, "none")]
    ELSE [ok |-> TRUE, value |-> m[name], args |-> m, err |-> NoError]

\* Mutant of get_s: an absent name yields the empty string and no error.
get_s_defaults(m, name) ==
    IF name \notin DOMAIN m
    THEN [ok |-> TRUE, value |-> << >>, args |-> m, err |-> NoError]
    ELSE [ok |-> TRUE, value |-> m[name],
          args |-> [x \in (DOMAIN m) \ {name} |-> m[x]], err |-> NoError]

\* Args::get_s: find the name, throw when it is absent, else erase it and
\* return its value.
get_s(m, name) ==
    IF name \notin Keys(m)
    THEN [ok |-> FALSE, value |-> << >>, args |-> m,
          err |-> Error("MissingParameterError", name, << >>, << >>, "none")]
    ELSE [ok |-> TRUE, value |-> m[name], args |-> MapErase(m, name), err |-> NoError]

\* Mutant of Coerced: a failed conversion puts the string back under its key.
Coerced_restores_key(g, c, none) ==
    IF ~g.ok THEN [ok |-> FALSE, value |-> none, args |-> g.args, err |-> g.err]
    ELSE IF ~c.ok
    THEN [ok |-> FALSE, value |-> none,
          args |-> MapPut(g.args, c.err.name, c.err.arg),
          err |-> [c.err EXCEPT !.kind = "CoercionError"]]
    ELSE [ok |-> TRUE, value |-> c.value, args |-> g.args, err |-> NoError]

\* The outcome of a coercing getter: g is what get_s yields, c what the
\* conversion of the string makes of it; the error of the conversion is
\* thrown on under the getter's name, the key being erased already.
Coerced(g, c, none) ==
    IF ~g.ok THEN [ok |-> FALSE, value |-> none, args |-> g.args, err |-> g.err]
    ELSE IF ~c.ok
    THEN [ok |-> FALSE, value |-> none, args |-> g.args,
          err |-> [c.err EXCEPT !.kind = "CoercionError"]]
    ELSE [ok |-> TRUE, value |-> c.value, args |-> g.args, err |-> NoError]

\* Mutant of get_i: the key is erased only once the conversion succeeded.
get_i_erases_on_success(m, name) ==
    LET g == get_s(m, name)
        c == convert_str_to_i(name, g.value)
    IN  IF ~g.ok THEN [ok |-> FALSE, value |-> 0, args |-> m, err |-> g.err]
        ELSE IF ~c.ok
        THEN [ok |-> FALSE, value |-> 0, args |-> m,
              err |-> [c.err EXCEPT !.kind = "CoercionError"]]
        ELSE [ok |-> TRUE, value |-> c.value, args |-> g.args, err |-> NoError]

\* Args::get_i: get_s, then the conversion of the string taken out of the
\* map to int.
get_i(m, name) ==
    Coerced(get_s(m, name), convert_str_to_i(name, get_s(m, name).value), 0)

\* Args::get_u: get_s, then the conversion of the string taken out of the
\* map to unsigned int.
get_u(m, name) ==
    Coerced(get_s(m, name), convert_str_to_u(name, get_s(m, name).value), ZeroLimbs(IDLimbs))

\* Args::get_d: get_s, then the conversion of the string taken out of the
\* map to double.
get_d(m, name) ==
    Coerced(get_s(m, name), convert_str_to_ld(name, get_s(m, name).value), NoDouble)

\* The outcome of get_b, g being what get_s yields.
Boolean(g, name) ==
    IF ~g.ok THEN [ok |-> FALSE, value |-> FALSE, args |-> g.args, err |-> g.err]
    ELSE IF g.value = << "T", "r", "u", "e" >> \/ g.value = << "t", "r", "u", "e" >>
    THEN [ok |-> TRUE, value |-> TRUE, args |-> g.args, err |-> NoError]
    ELSE IF g.value = << "F", "a", "l", "s", "e" >> \/ g.value = << "f", "a", "l", "s", "e" >>
    THEN [ok |-> TRUE, value |-> FALSE, args |-> g.args, err |-> NoError]
    ELSE [ok |-> FALSE, value |-> FALSE, args |-> g.args,
          err |-> Error("CoercionError", name, g.value, << >>, "is not boolean")]

\* Mutant of get_b: the spellings are compared without regard to case.
get_b_ignores_case(m, name) ==
    LET g == get_s(m, name)
        s == g.value
    IN  IF ~g.ok THEN [ok |-> FALSE, value |-> FALSE, args |-> g.args, err |-> g.err]
        ELSE IF MatchWord(s, 1, << "t", "r", "u", "e" >>) /\ Len(s) = 4
        THEN [ok |-> TRUE, value |-> TRUE, args |-> g.args, err |-> NoError]
        ELSE IF MatchWord(s, 1, << "f", "a", "l", "s", "e" >>) /\ Len(s) = 5
        THEN [ok |-> TRUE, value |-> FALSE, args |-> g.args, err |-> NoError]
        ELSE [ok |-> FALSE, value |-> FALSE, args |-> g.args,
              err |-> Error("CoercionError", name, s, << >>, "is not boolean")]

\* Args::get_b: get_s, then exactly the four spellings.
get_b(m, name) == Boolean(get_s(m, name), name)

\* ------------------------------------------------------------------------
\* The Go port: ParseCommandline, Args.GetStr, Args.NoFurtherArguments
\* ------------------------------------------------------------------------

\* The int zero of the Go port: sign and magnitude.
GoZero == [neg |-> FALSE, mag |-> ZeroLimbs(ULongLimbs)]

\* The nil *Args.
GoNil ==
    [nil |-> TRUE, JobID |-> GoZero, RepetitionID |-> GoZero,
     args |-> EmptyMap, argWasUsed |-> {}]

\* splitArg: strings.SplitN(arg, "=", 2) has to give two components.
splitArg(arg) ==
    IF find(arg, "=") = 0
    THEN [ok |-> FALSE, key |-> << >>, value |-> << >>]
    ELSE [ok |-> TRUE,
          key |-> SubSeq(arg, 1, find(arg, "=") - 1),
          value |-> substr_from(arg, find(arg, "=") + 1)]

\* One loop of separateArgvIntoSpecialAndNormalKVs from position i on; the
\* first loop breaks at the separator.  i is where the loop stopped.
RECURSIVE GoArgvLoop(_, _, _, _, _)
GoArgvLoop(argv, i, sep, breakAtSep, map) ==
    IF i > Len(argv) THEN [ok |-> TRUE, map |-> map, i |-> i]
    ELSE IF breakAtSep /\ argv[i] = sep THEN [ok |-> TRUE, map |-> map, i |-> i]
    ELSE IF ~splitArg(argv[i]).ok THEN [ok |-> FALSE, map |-> map, i |-> i]
    ELSE GoArgvLoop(argv, i + 1, sep, breakAtSep,
                    [x \in Keys(map) \cup { splitArg(argv[i]).key } |->
                        IF x = splitArg(argv[i]).key
                        THEN splitArg(argv[i]).value ELSE map[x]])

\* What separateArgvIntoSpecialAndNormalKVs returns: nil maps with an error,
\* or the two maps.
GoSeparated(special, normal) ==
    IF ~special.ok \/ ~normal.ok
    THEN [special |-> EmptyMap, normal |-> EmptyMap, err |-> "can't split"]
    ELSE [special |-> special.map, normal |-> normal.map, err |-> "nil"]

\* The second loop starts one past the position the first loop stopped at.
GoSeparateNormal(argv, sep, special) ==
    GoSeparated(special, GoArgvLoop(argv, special.i + 1, sep, FALSE, EmptyMap))

separateArgvIntoSpecialAndNormalKVs(argv, sep) ==
    GoSeparateNormal(argv, sep, GoArgvLoop(argv, 1, sep, TRUE, EmptyMap))

\* The int of the Go port has 64 bits: the greatest and the least value.
GoMaxInt == [neg |-> FALSE, mag |-> << 65535, 65535, 65535, 32767 >>]

GoMinInt == [neg |-> TRUE, mag |-> << 0, 0, 0, 32768 >>]

\* strconv.Atoi once sign and digits are read: out of the range of int the
\* nearest bound is returned with a range error.
AtoiValue(neg, acc) ==
    IF acc.overflow \/ (acc.limbs[ULongLimbs] >= 32768 /\ ~(neg /\ acc.limbs = GoMinInt.mag))
    THEN [value |-> IF neg THEN GoMinInt ELSE GoMaxInt, err |-> "range"]
    ELSE [value |-> [neg |-> neg /\ acc.limbs # ZeroLimbs(ULongLimbs), mag |-> acc.limbs],
          err |-> "nil"]

\* strconv.Atoi with the digits starting at position start: base 10 only,
\* every character a digit, no white space, no prefix.
AtoiDigits(s, start, neg) ==
    IF start > Len(s) \/ \E i \in start..Len(s) : DigitVal(s[i]) >= 10
    THEN [value |-> GoZero, err |-> "syntax"]
    ELSE AtoiValue(neg, Accumulate(s, start, Len(s) + 1, 10,
                                   ZeroLimbs(ULongLimbs), FALSE))

\* strconv.Atoi: an optional "+" or "-", then decimal digits.
Atoi(s) ==
    IF Len(s) > 0 /\ s[1] \in { "+", "-" }
    THEN AtoiDigits(s, 2, s[1] = "-")
    ELSE AtoiDigits(s, 1, FALSE)

\* ParseCommandline returns before an Args is made.
GoFailure(e) == [args |-> GoNil, err |-> e]

\* ParseCommandline from the conversions on: a JobID that does not convert
\* returns; a RepetitionID that does not convert sets the error and the
\* Args is made all the same.
GoConverted(jobID, repetitionID, normalArgs) ==
    IF jobID.err # "nil" THEN GoFailure("can't parse JobID")
    ELSE [args |-> [nil |-> FALSE, JobID |-> jobID.value,
                    RepetitionID |-> repetitionID.value,
                    args |-> normalArgs, argWasUsed |-> {}],
          err |-> IF repetitionID.err # "nil"
                  THEN "can't parse RepetitionID" ELSE "nil"]

\* ParseCommandline from the lookups on; the error of the separation is
\* overwritten, a lookup in a nil map finds nothing.
GoLookedUp(sepd, config) ==
    IF config.job_id_key \notin Keys(sepd.special)
    THEN GoFailure("JobID required")
    ELSE IF config.repetition_id_key \notin Keys(sepd.special)
    THEN GoFailure("RepetitionID required")
    ELSE IF Keys(sepd.special) \ { config.job_id_key, config.repetition_id_key } # {}
    THEN GoFailure("unknown special arguments")
    ELSE GoConverted(Atoi(sepd.special[config.job_id_key]),
                     Atoi(sepd.special[config.repetition_id_key]),
                     sepd.normal)

\* ParseCommandline(argv, config), argv being the tokens after the program
\* name.
GoParseCommandline(argv, config) ==
    GoLookedUp(separateArgvIntoSpecialAndNormalKVs(argv, Separator), config)

\* Args.GetStr: the value of the key, an error when there is none, and the
\* key marked as used; the map stays as it is.
GetStr(args, key) ==
    [value |-> IF key \in Keys(args.args) THEN args.args[key] ELSE << >>,
     err   |-> IF key \in Keys(args.args) THEN "nil" ELSE "no argument",
     args  |-> [args EXCEPT !.argWasUsed = @ \cup { key }]]

\* Args.NoFurtherArguments: an error when a key of the map is not marked.
GoNoFurtherArguments(args) ==
    IF Keys(args.args) \ args.argWasUsed # {}
    THEN "Unused arguments remain" ELSE "nil"

\* ------------------------------------------------------------------------
\* The program: one process that parses its argument vector and then works
\* on the Args it obtained
\* ------------------------------------------------------------------------

VARIABLES
    argv,             \* the argument vector of the process, argv[0] included
    config,           \* the JobArgvConfig handed to parse_commandline
    pc,               \* "start", "parsed" (an Args exists) or "failed"
    m_job_id,         \* Args::m_job_id
    m_repetition_id,  \* Args::m_repetition_id
    m_args,           \* Args::m_args, the remaining map
    err,              \* the error thrown by the last call, NoError if none
    ret,              \* the value returned by the last call
    lastOp,           \* the name of the last call
    lastName,         \* the name argument of the last call
    normal0,          \* history: the map the Args was constructed with
    requested,        \* history: the names handed to get_* calls so far
    extracted,        \* history: the names for which a get_* returned a value
    job,              \* the Job handed to the encoder, NoJob if none
    matrix,           \* JobBuilder: the value matrix, in the order of the add calls
    jobs,             \* the Jobs the last build produced
    results,          \* the JobResults of the Jobs run so far
    repetitions,      \* history: the repetitions argument of the last build
    lastArgs,         \* history: the numbers handed to the last add_range or add_linspace
    goArgs,           \* Go port: the *Args ParseCommandline returned
    goErr,            \* Go port: the error the last call returned, "nil" if none
    goValue,          \* Go port: the string the last GetStr returned
    callers,          \* of each thread that runs get_s: its position and locals
    overlapped        \* history: a get_s call began while another was under way

vars == << argv, config, pc, m_job_id, m_repetition_id, m_args, err, ret,
           lastOp, lastName, normal0, requested, extracted,
           job, matrix, jobs, results, repetitions, lastArgs,
           goArgs, goErr, goValue, callers, overlapped >>

\* The state of the encoding side; the decoder never touches it.
builderVars == << job, matrix, jobs, results, repetitions, lastArgs >>

\* The state of the decoding side.
codecVars == << argv, config, pc, m_job_id, m_repetition_id, m_args,
                normal0, requested, extracted >>

\* The state of the Go port.
portVars == << goArgs, goErr, goValue >>

\* The state of the threads that share one Args.
callerVars == << callers, overlapped >>

NoJob == [job_id |-> << >>, repetition_id |-> << >>, parameters |-> << >>]

\* A process that only decodes holds no Job and no builder.
NoBuilder ==
    /\ job = NoJob
    /\ matrix = << >>
    /\ jobs = << >>
    /\ results = << >>
    /\ repetitions = 0
    /\ lastArgs = << >>

\* A process that does not run the Go port.
NoPort ==
    /\ goArgs = GoNil
    /\ goErr = "nil"
    /\ goValue = << >>

\* The threads that can share an Args.
Threads == { 1, 2 }

\* A thread outside of get_s.
Idle == [pc |-> "idle", name |-> << >>, result |-> << >>, valid |-> FALSE]

\* A process in which no second thread touches the Args.
NoCallers ==
    /\ callers = [t \in Threads |-> Idle]
    /\ overlapped = FALSE

\* The tokens the generated argument vectors put before the separator.
SpecialPool ==
    { << "-", "-", "i", "d", "=", "4" >>,
      << "-", "-", "i", "d", "=", "0", "1", "0" >>,
      << "-", "-", "i", "d", "=", "-", "5" >>,
      << "-", "-", "i", "d", "=", "x" >>,
      << "-", "-", "r", "e", "p", "=", "7" >>,
      << "-", "-", "z", "z", "=", "0" >>,
      << "-", "-", "i", "d" >> }

\* The tokens the generated argument vectors put after the separator.
NormalPool ==
    { << "z", "=", "b", "=", "c" >>,
      << "b", "=" >>,
      << "x" >>,
      << "-", "-" >> }

\* The names the caller asks for.
ArgNames == { << "a" >>, << "b" >>, << "z" >> }

\* The sequences over S of length at most n.
RECURSIVE SeqsUpTo(_, _)
SeqsUpTo(S, n) ==
    IF n = 0 THEN { << >> }
    ELSE LET shorter == SeqsUpTo(S, n - 1)
         IN  shorter \cup { Append(q, x) : q \in shorter, x \in S }

\* The argument vectors of the model: the program name, tokens of the special
\* pool, the separator or nothing, tokens of the normal pool.
ArgvSet ==
    { << << "s", "e", "l", "f" >> >> \o sp \o mid \o no :
        sp  \in SeqsUpTo(SpecialPool, MaxSpecial),
        mid \in { << >>, << Separator >> },
        no  \in SeqsUpTo(NormalPool, MaxNormal) }

NoReturn ==
    [type |-> "none", s |-> << >>, i |-> 0, u |-> ZeroLimbs(IDLimbs),
     d |-> NoDouble, b |-> FALSE]

Init ==
    /\ argv \in ArgvSet
    /\ config = DefaultConfig
    /\ pc = "start"
    /\ m_job_id = ZeroLimbs(IDLimbs)
    /\ m_repetition_id = ZeroLimbs(IDLimbs)
    /\ m_args = EmptyMap
    /\ err = NoError
    /\ ret = NoReturn
    /\ lastOp = "none"
    /\ lastName = << >>
    /\ normal0 = EmptyMap
    /\ requested = {}
    /\ extracted = {}
    /\ NoBuilder
    /\ NoPort
    /\ NoCallers

\* parse_commandline returned r: an Args{job_id, repetition_id, args} was
\* constructed, or the error was thrown.
Returned(r) ==
    /\ pc' = IF r.ok THEN "parsed" ELSE "failed"
    /\ m_job_id' = r.job_id
    /\ m_repetition_id' = r.repetition_id
    /\ m_args' = r.args
    /\ normal0' = r.args
    /\ err' = r.err

\* main calls parse_commandline(argc, argv) once.
ParseCall ==
    /\ pc = "start"
    /\ Returned(parse_commandline(Len(argv), argv, config))
    /\ ret' = NoReturn
    /\ lastOp' = "parse_commandline"
    /\ lastName' = << >>
    /\ UNCHANGED << argv, config, requested, extracted >>
    /\ UNCHANGED builderVars
    /\ UNCHANGED callerVars

ParseCommandline == ParseCall /\ UNCHANGED portVars

\* What the caller holds after a get_* call returned v.
ReturnValue(op, v) ==
    CASE op = "get_s" -> [NoReturn EXCEPT !.type = "s", !.s = v]
      [] op = "get_i" -> [NoReturn EXCEPT !.type = "i", !.i = v]
      [] op = "get_u" -> [NoReturn EXCEPT !.type = "u", !.u = v]
      [] op = "get_d" -> [NoReturn EXCEPT !.type = "d", !.d = v]
      [] op = "get_b" -> [NoReturn EXCEPT !.type = "b", !.b = v]

\* The effect every get_* call has on the state, r being its outcome.
GetCall(op, name, r) ==
    /\ pc = "parsed"
    /\ m_args' = r.args
    /\ err' = r.err
    /\ ret' = IF r.ok THEN ReturnValue(op, r.value) ELSE NoReturn
    /\ lastOp' = op
    /\ lastName' = name
    /\ requested' = requested \cup {name}
    /\ extracted' = IF r.ok THEN extracted \cup {name} ELSE extracted
    /\ UNCHANGED << argv, config, pc, m_job_id, m_repetition_id, normal0 >>
    /\ UNCHANGED builderVars
    /\ UNCHANGED callerVars

GetS(name) == GetCall("get_s", name, get_s(m_args, name)) /\ UNCHANGED portVars

GetI(name) == GetCall("get_i", name, get_i(m_args, name)) /\ UNCHANGED portVars

GetU(name) == GetCall("get_u", name, get_u(m_args, name)) /\ UNCHANGED portVars

GetD(name) == GetCall("get_d", name, get_d(m_args, name)) /\ UNCHANGED portVars

GetB(name) == GetCall("get_b", name, get_b(m_args, name)) /\ UNCHANGED portVars

\* The caller runs args.no_further_arguments(); the method is const.
NoFurtherCall ==
    /\ pc = "parsed"
    /\ err' = no_further_arguments(m_args).err
    /\ ret' = NoReturn
    /\ lastOp' = "no_further_arguments"
    /\ lastName' = << >>
    /\ UNCHANGED << argv, config, pc, m_job_id, m_repetition_id, m_args,
                    normal0, requested, extracted >>
    /\ UNCHANGED builderVars
    /\ UNCHANGED callerVars

NoFurtherArguments == NoFurtherCall /\ UNCHANGED portVars

Next ==
    \/ ParseCommandline
    \/ \E name \in ArgNames : GetS(name)
    \/ \E name \in ArgNames : GetI(name)
    \/ \E name \in ArgNames : GetU(name)
    \/ \E name \in ArgNames : GetD(name)
    \/ \E name \in ArgNames : GetB(name)
    \/ NoFurtherArguments

Spec == Init /\ [][Next]_vars

\* ------------------------------------------------------------------------
\* A program that constructs its Args directly, Args{job_id, repetition_id,
\* map}, as the tests of Args do, and then works on it
\* ------------------------------------------------------------------------

\* greatest number of entries of a directly constructed map
MaxDirectKeys == 2

\* The keys of the directly constructed maps.
DirectKeys == { << "a" >>, << "b" >> }

\* The strings stored in the directly constructed maps.
ValuePool ==
    { << "T", "r", "u", "e" >>, << "t", "r", "u", "e" >>,
      << "F", "a", "l", "s", "e" >>, << "f", "a", "l", "s", "e" >>,
      << "1" >>, << "0" >>, << "y", "e", "s" >>, << "n", "o" >>,
      << "t" >>, << "f" >>, << "T" >>, << "T", "R", "U", "E" >>, << >>,
      << "4", "0", "3" >>, << "-", "1", "7" >>, << "4", ".", "2" >>,
      << "0", "f", "o", "o" >>, << "0", "1", "0" >>, << "0", "x", "1", "F" >>,
      << "2", "1", "4", "7", "4", "8", "3", "6", "4", "8" >>,
      << "-", "2", "1", "4", "7", "4", "8", "3", "6", "4", "8" >> }

DirectMaps ==
    UNION { [K -> ValuePool] :
              K \in { S \in SUBSET DirectKeys : Cardinality(S) <= MaxDirectKeys } }

InitArgs ==
    /\ argv = << >>
    /\ config = DefaultConfig
    /\ pc = "parsed"
    /\ m_job_id = << 4, 0 >>
    /\ m_repetition_id = << 7, 0 >>
    /\ m_args \in DirectMaps
    /\ err = NoError
    /\ ret = NoReturn
    /\ lastOp = "Args"
    /\ lastName = << >>
    /\ normal0 = m_args
    /\ requested = {}
    /\ extracted = {}
    /\ NoBuilder
    /\ NoPort
    /\ NoCallers

NextArgs ==
    \/ \E name \in ArgNames : GetS(name)
    \/ \E name \in ArgNames : GetI(name)
    \/ \E name \in ArgNames : GetU(name)
    \/ \E name \in ArgNames : GetD(name)
    \/ \E name \in ArgNames : GetB(name)
    \/ NoFurtherArguments

SpecArgs == InitArgs /\ [][NextArgs]_vars

\* ------------------------------------------------------------------------
\* Vocabulary of the properties, stated on the argument vector itself
\* ------------------------------------------------------------------------

\* The tokens after the program name.
Tokens == Tail(argv)

\* The position of the first separator token, one past the end if none.
FirstSeparator ==
    IF \E i \in 1..Len(Tokens) : Tokens[i] = Separator
    THEN CHOOSE i \in 1..Len(Tokens) :
            Tokens[i] = Separator /\ \A j \in 1..(i - 1) : Tokens[j] # Separator
    ELSE Len(Tokens) + 1

\* The positions of the special and of the normal region.
SpecialPositions == 1..(FirstSeparator - 1)

NormalPositions == (FirstSeparator + 1)..Len(Tokens)

HasEquals(t) == \E i \in 1..Len(t) : t[i] = "="

\* The text before the first "=" of a token that has one.
TextBeforeEquals(t) ==
    CHOOSE k \in { SubSeq(t, 1, n) : n \in 0..Len(t) } :
        /\ Len(k) < Len(t)
        /\ t[Len(k) + 1] = "="
        /\ \A i \in 1..Len(k) : k[i] # "="

\* The text after the first "=" of a token that has one.
TextAfterEquals(t) == SubSeq(t, Len(TextBeforeEquals(t)) + 2, Len(t))

\* Every token but the separator has an "=".
AllTokensSplit ==
    \A i \in SpecialPositions \cup NormalPositions : HasEquals(Tokens[i])

\* The keys of the tokens of a region that have an "=".
RegionKeys(positions) ==
    { TextBeforeEquals(Tokens[i]) : i \in { j \in positions : HasEquals(Tokens[j]) } }

\* The value of the last token of a region that carries the key.
LastValue(positions, key) ==
    LET at == { i \in positions :
                  HasEquals(Tokens[i]) /\ TextBeforeEquals(Tokens[i]) = key }
        last == CHOOSE i \in at : \A j \in at : j <= i
    IN  TextAfterEquals(Tokens[last])

IsDecimalNumeral(s) ==
    /\ s # << >>
    /\ \A i \in 1..Len(s) : s[i] \in {"0","1","2","3","4","5","6","7","8","9"}

\* The number a decimal numeral denotes, in the width of the ID, and
\* whether it lies beyond that width.
RECURSIVE DecimalValue(_, _)
DecimalValue(s, n) ==
    IF n = 0 THEN [limbs |-> ZeroLimbs(IDLimbs), overflow |-> FALSE]
    ELSE LET before == DecimalValue(s, n - 1)
             r      == MulAdd(before.limbs, 10, Ord(s[n]) - Ord("0"))
         IN  [limbs |-> r.limbs, overflow |-> before.overflow \/ r.overflow]

\* A sequence of strings is strictly ascending, so sorted without repeats.
Ascending(keys) ==
    \A i \in 1..(Len(keys) - 1) : StrLess(keys[i], keys[i + 1])

Range(f) == { f[i] : i \in DOMAIN f }

IsGet(op) == op \in {"get_s", "get_i", "get_u", "get_d", "get_b"}

\* ------------------------------------------------------------------------
\* Properties
\* ------------------------------------------------------------------------

StartsWith(t, prefix) ==
    Len(t) >= Len(prefix) /\ SubSeq(t, 1, Len(prefix)) = prefix

IdPrefix == << "-", "-", "i", "d", "=" >>

RepPrefix == << "-", "-", "r", "e", "p", "=" >>

\* The numeral of a token behind a prefix.
Behind(t, prefix) == SubSeq(t, Len(prefix) + 1, Len(t))

\* The argument vector reads: program name, --id=N, --rep=M, --, then
\* key=value tokens with distinct keys, N and M being decimal numerals
\* within the 32-bit unsigned range.
PlainCommandline ==
    /\ Len(Tokens) >= 3
    /\ StartsWith(Tokens[1], IdPrefix)
    /\ IsDecimalNumeral(Behind(Tokens[1], IdPrefix))
    /\ ~DecimalValue(Behind(Tokens[1], IdPrefix), Len(Tokens[1]) - Len(IdPrefix)).overflow
    /\ StartsWith(Tokens[2], RepPrefix)
    /\ IsDecimalNumeral(Behind(Tokens[2], RepPrefix))
    /\ ~DecimalValue(Behind(Tokens[2], RepPrefix), Len(Tokens[2]) - Len(RepPrefix)).overflow
    /\ Tokens[3] = Separator
    /\ \A i \in 4..Len(Tokens) : HasEquals(Tokens[i])
    /\ \A i, j \in 4..Len(Tokens) :
          i # j => TextBeforeEquals(Tokens[i]) # TextBeforeEquals(Tokens[j])

\* C1: for every argument vector "--id=N --rep=M -- key=value..." with
\* distinct keys and decimal numerals N, M that fit 32 bits,
\* parse_commandline succeeds with job_id = N, repetition_id = M (the value
\* of the --rep token) and a map that holds exactly the pairs of the tokens
\* after the separator.
C1_PlainCommandlineDecoded ==
    (pc # "start" /\ PlainCommandline) =>
        /\ pc = "parsed"
        /\ m_job_id = DecimalValue(Behind(Tokens[1], IdPrefix),
                                   Len(Tokens[1]) - Len(IdPrefix)).limbs
        /\ m_repetition_id = DecimalValue(Behind(Tokens[2], RepPrefix),
                                          Len(Tokens[2]) - Len(RepPrefix)).limbs
        /\ Keys(normal0) = RegionKeys(4..Len(Tokens))
        /\ \A i \in 4..Len(Tokens) :
              normal0[TextBeforeEquals(Tokens[i])] = TextAfterEquals(Tokens[i])

\* C2: every key is extracted at most once.  After a get_* call returned a
\* value for a name, the name is not in the remaining map, and every later
\* get_* call with that name fails with MissingParameterError, whatever was
\* called in between.
C2_ExtractedAtMostOnce ==
    [][ /\ \A n \in extracted' : n \notin Keys(m_args')
        /\ \A n \in extracted :
              (IsGet(lastOp') /\ lastName' = n) =>
                  err'.kind = "MissingParameterError" ]_vars

\* A get_* call was repeated for a name that had been extracted before,
\* with another call in between.
C2_Witness_SecondGet ==
    /\ IsGet(lastOp)
    /\ lastName \in extracted
    /\ err.kind = "MissingParameterError"
    /\ Cardinality(requested) >= 2

\* C3: no_further_arguments() succeeds if and only if every key of the normal
\* region of the parsed command line has been named by an earlier get_*
\* call; otherwise it fails with UnconsumedArgumentsError.
C3_NoFurtherIffAllRequested ==
    lastOp = "no_further_arguments" =>
        /\ (err = NoError) <=> (RegionKeys(NormalPositions) \subseteq requested)
        /\ (err # NoError) => err.kind = "UnconsumedArgumentsError"

\* no_further_arguments() succeeded on a command line with two normal keys,
\* one of them consumed by a get_* call that failed to coerce.
C3_Witness_AllRequested ==
    /\ lastOp = "no_further_arguments"
    /\ err = NoError
    /\ Cardinality(RegionKeys(NormalPositions)) = 2
    /\ requested \ extracted # {}

\* C4: no_further_arguments() does nothing exactly when the remaining map is
\* empty; otherwise it fails with UnconsumedArgumentsError, whose key list is
\* the keys still in the map, ascending and each once; the map is unchanged
\* in both cases.
C4_NoFurtherReportsSortedKeys ==
    [][ lastOp' = "no_further_arguments" =>
          /\ m_args' = m_args
          /\ (err' = NoError) <=> (Keys(m_args) = {})
          /\ Keys(m_args) # {} =>
                /\ err'.kind = "UnconsumedArgumentsError"
                /\ Range(err'.keys) = Keys(m_args)
                /\ Len(err'.keys) = Cardinality(Keys(m_args))
                /\ Ascending(err'.keys) ]_vars

\* no_further_arguments() failed with two keys left, given on the command
\* line in descending order.
C4_Witness_TwoKeysLeft ==
    /\ lastOp = "no_further_arguments"
    /\ err.kind = "UnconsumedArgumentsError"
    /\ Len(err.keys) = 2
    /\ Len(Tokens) >= 2
    /\ Tokens[Len(Tokens) - 1] = << "z", "=", "b", "=", "c" >>
    /\ Tokens[Len(Tokens)] = << "b", "=" >>

\* The special region holds no token with the job-id key, or none with the
\* repetition-id key.
LacksAnId ==
    \/ config.job_id_key \notin RegionKeys(SpecialPositions)
    \/ config.repetition_id_key \notin RegionKeys(SpecialPositions)

\* C5 as stated: if the special region lacks the job-id key or the
\* repetition-id key, parse_commandline fails with
\* MissingSpecialArgumentError and returns no Args.
C5_Original_LacksIdFailsMissing ==
    (pc # "start" /\ LacksAnId) =>
        (pc = "failed" /\ err.kind = "MissingSpecialArgumentError")

\* C5 as amended: if every token other than the separator has an "=" and the
\* special region lacks the job-id key or the repetition-id key,
\* parse_commandline fails with MissingSpecialArgumentError and returns no
\* Args.
C5_LacksIdFailsMissing ==
    (pc # "start" /\ AllTokensSplit /\ LacksAnId) =>
        (pc = "failed" /\ err.kind = "MissingSpecialArgumentError")

\* parse_commandline failed for the missing repetition id, the job id being
\* there.
C5_Witness_MissingRep ==
    /\ pc = "failed"
    /\ err.kind = "MissingSpecialArgumentError"
    /\ err.name = config.repetition_id_key
    /\ config.job_id_key \in RegionKeys(SpecialPositions)

\* The keys of the special region other than the two id keys.
OtherSpecialKeys ==
    RegionKeys(SpecialPositions) \ {config.job_id_key, config.repetition_id_key}

BothIdsAndMore ==
    /\ config.job_id_key \in RegionKeys(SpecialPositions)
    /\ config.repetition_id_key \in RegionKeys(SpecialPositions)
    /\ OtherSpecialKeys # {}

UnknownSpecialReported ==
    /\ pc = "failed"
    /\ err.kind = "UnknownSpecialArgumentError"
    /\ Range(err.keys) = OtherSpecialKeys
    /\ Len(err.keys) = Cardinality(OtherSpecialKeys)
    /\ Ascending(err.keys)

\* C6 as stated: if both id keys are present and the special region holds
\* any other key, parse_commandline fails with UnknownSpecialArgumentError
\* and reports exactly the other keys in ascending order.
C6_Original_UnknownSpecial ==
    (pc # "start" /\ BothIdsAndMore) => UnknownSpecialReported

\* C6 as amended: if every token other than the separator has an "=", both
\* id keys are present and the special region holds any other key,
\* parse_commandline fails with UnknownSpecialArgumentError and reports
\* exactly the other keys in ascending order.
C6_UnknownSpecial ==
    (pc # "start" /\ AllTokensSplit /\ BothIdsAndMore) => UnknownSpecialReported

\* parse_commandline reported two unknown special keys, which stood in
\* descending order on a command line without separator.
C6_Witness_UnknownReported ==
    /\ pc = "failed"
    /\ err.kind = "UnknownSpecialArgumentError"
    /\ Len(err.keys) = 2
    /\ Tokens[Len(Tokens) - 1] = << "z", "=", "b", "=", "c" >>
    /\ Tokens[Len(Tokens)] = << "b", "=" >>

\* The map the claim expects of a region: the text before the first "=" of
\* each token to the text after it.
ExpectedNormal ==
    [k \in RegionKeys(NormalPositions) |-> LastValue(NormalPositions, k)]

\* C7: every token other than the separator is split at its first "=" only:
\* the key is the text before it, the value all text after it (possibly
\* empty, possibly with further "="); a token without "=" in either region
\* makes parse_commandline fail with MalformedArgumentError.
C7_SplitAtFirstEquals ==
    pc # "start" =>
        /\ ~AllTokensSplit <=> (pc = "failed" /\ err.kind = "MalformedArgumentError")
        /\ err.kind = "MalformedArgumentError" =>
              (~HasEquals(err.arg) /\ err.arg \in Range(Tokens))
        /\ err.kind = "UnknownSpecialArgumentError" =>
              Range(err.keys) = OtherSpecialKeys
        /\ pc = "parsed" =>
              /\ normal0 = ExpectedNormal
              /\ config.job_id_key \in RegionKeys(SpecialPositions)
              /\ config.repetition_id_key \in RegionKeys(SpecialPositions)

\* parse_commandline stored a value with a further "=" and an empty value.
C7_Witness_ValueWithEquals ==
    /\ pc = "parsed"
    /\ Keys(normal0) = { << "z" >>, << "b" >> }
    /\ normal0[<< "z" >>] = << "b", "=", "c" >>
    /\ normal0[<< "b" >>] = << >>

\* A string denotes a negative number: a minus sign before a decimal
\* numeral.
IsNegativeNumber(s) == Len(s) >= 2 /\ s[1] = "-" /\ IsDecimalNumeral(Tail(s))

\* A string is numeric: a decimal numeral with an optional sign.
IsNumeric(s) ==
    \/ IsDecimalNumeral(s)
    \/ Len(s) >= 2 /\ s[1] \in {"+", "-"} /\ IsDecimalNumeral(Tail(s))

\* The command line reaches the conversion of the ids: every token splits,
\* both ids are present and no other special key is.
ReachesIdConversion ==
    /\ AllTokensSplit
    /\ RegionKeys(SpecialPositions) = {config.job_id_key, config.repetition_id_key}

BadId(s) == ~IsNumeric(s) \/ IsNegativeNumber(s)

\* C8: parse_commandline fails with InvalidIdError whenever the value of the
\* job-id token or of the repetition-id token is non-numeric or denotes a
\* negative number; it never returns an Args for such input.
C8_BadIdRejected ==
    ( /\ pc # "start"
      /\ ReachesIdConversion
      /\ \/ BadId(LastValue(SpecialPositions, config.job_id_key))
         \/ BadId(LastValue(SpecialPositions, config.repetition_id_key)) )
    => (pc = "failed" /\ err.kind = "InvalidIdError")

\* C9: a get_* call whose name is not in the remaining map fails with
\* MissingParameterError and leaves job_id, repetition_id and the remaining
\* map as they were.
C9_MissingParameter ==
    [][ (IsGet(lastOp') /\ lastName' \notin Keys(m_args)) =>
          /\ err'.kind = "MissingParameterError"
          /\ m_args' = m_args
          /\ m_job_id' = m_job_id
          /\ m_repetition_id' = m_repetition_id ]_vars

\* A get_* call failed for a name that was never a key, other keys being
\* still in the map.
C9_Witness_NeverAKey ==
    /\ IsGet(lastOp)
    /\ err.kind = "MissingParameterError"
    /\ lastName \notin Keys(normal0)
    /\ Keys(m_args) # {}

TrueSpellings == { << "T", "r", "u", "e" >>, << "t", "r", "u", "e" >> }

FalseSpellings == { << "F", "a", "l", "s", "e" >>, << "f", "a", "l", "s", "e" >> }

\* C10: get_b returns true exactly for the stored strings "True" and "true",
\* false exactly for "False" and "false", and fails with CoercionError for
\* every other stored string.
C10_BooleanSpellings ==
    (lastOp = "get_b" /\ err.kind # "MissingParameterError") =>
        LET stored == normal0[lastName]
        IN  /\ stored \in TrueSpellings =>
                (err = NoError /\ ret.type = "b" /\ ret.b = TRUE)
            /\ stored \in FalseSpellings =>
                (err = NoError /\ ret.type = "b" /\ ret.b = FALSE)
            /\ stored \notin TrueSpellings \cup FalseSpellings =>
                (err.kind = "CoercionError" /\ ret = NoReturn)

\* get_b rejected the stored string "TRUE".
C10_Witness_UpperCaseRejected ==
    /\ lastOp = "get_b"
    /\ err.kind = "CoercionError"
    /\ normal0[lastName] = << "T", "R", "U", "E" >>

\* ------------------------------------------------------------------------
\* The encoder, shell_command_from_job, and a process that decodes what it
\* produced
\* ------------------------------------------------------------------------

\* greatest number of parameters of an encoded Job
MaxParams == 2

DecimalDigit == << "0", "1", "2", "3", "4", "5", "6", "7", "8", "9" >>

\* The limbs x[1..i] divided by ten, rem being the remainder carried in from
\* the limbs above.
RECURSIVE DivTen(_, _, _)
DivTen(x, i, rem) ==
    IF i = 0 THEN [limbs |-> << >>, rem |-> rem]
    ELSE LET lower == DivTen(x, i - 1, (rem * LimbBase + x[i]) % 10)
         IN  [limbs |-> Append(lower.limbs, (rem * LimbBase + x[i]) \div 10),
              rem   |-> lower.rem]

\* The decimal digits of a positive number, none for zero.
RECURSIVE DecimalDigits(_)
DecimalDigits(x) ==
    IF x = ZeroLimbs(Len(x)) THEN << >>
    ELSE Append(DecimalDigits(DivTen(x, Len(x), 0).limbs),
                DecimalDigit[DivTen(x, Len(x), 0).rem + 1])

\* str() of an unsigned integer: its decimal numeral without leading zeros.
Str(x) == IF x = ZeroLimbs(Len(x)) THEN << "0" >> ELSE DecimalDigits(x)

\* The token of one parameter: name, "=", the encoded value.  The value is
\* a string and its coercion the default one, str(), the identity on
\* strings.
ParameterToken(j, name) == name \o << "=" >> \o j.parameters[name]

\* The tokens of the parameters, each once, in a stable order.
ParameterTokens(j, names) ==
    [i \in 1..Len(names) |-> ParameterToken(j, names[i])]

\* shell_command_from_job: "<prefix> --id=<job_id> --rep=<repetition_id> --
\* <k1>=<v1> ...", as the argument vector the shell hands to the started
\* process (the quotes the encoder adds are taken off by the shell).
shell_command_from_job(prefix, j) ==
    << prefix,
       << "-", "-", "i", "d", "=" >> \o Str(j.job_id),
       << "-", "-", "r", "e", "p", "=" >> \o Str(j.repetition_id),
       Separator >>
    \o ParameterTokens(j, SortKeys(Keys(j.parameters)))

\* The parameter names of the encoded Jobs: non-empty strings other than
\* the separator.
NamePool == { << "a" >>, << "b" >>, << "z", "=", "b" >> }

\* The parameter values of the encoded Jobs.
StringPool == { << "x" >>, << >>, << "b", "=", "c" >> }

\* The ids of the encoded Jobs: 0, 4 and 2^32.
IdPool ==
    { ZeroLimbs(ULongLimbs),
      [i \in 1..ULongLimbs |-> IF i = 1 THEN 4 ELSE 0],
      [i \in 1..ULongLimbs |-> IF i = IDLimbs + 1 THEN 1 ELSE 0] }

JobPool ==
    { [job_id |-> id, repetition_id |-> rep, parameters |-> ps] :
        id \in IdPool,
        rep \in { ZeroLimbs(ULongLimbs), [i \in 1..ULongLimbs |-> IF i = 1 THEN 7 ELSE 0] },
        ps \in UNION { [K -> StringPool] :
                         K \in { S \in SUBSET NamePool : Cardinality(S) <= MaxParams } } }

InitCodec ==
    /\ argv = << >>
    /\ config = DefaultConfig
    /\ pc = "job"
    /\ m_job_id = ZeroLimbs(IDLimbs)
    /\ m_repetition_id = ZeroLimbs(IDLimbs)
    /\ m_args = EmptyMap
    /\ err = NoError
    /\ ret = NoReturn
    /\ lastOp = "none"
    /\ lastName = << >>
    /\ normal0 = EmptyMap
    /\ requested = {}
    /\ extracted = {}
    /\ job \in JobPool
    /\ matrix = << >>
    /\ jobs = << >>
    /\ results = << >>
    /\ repetitions = 0
    /\ lastArgs = << >>
    /\ NoPort
    /\ NoCallers

\* The Job is encoded and the command is started: the process finds the
\* tokens in its argument vector.
Encode ==
    /\ pc = "job"
    /\ argv' = shell_command_from_job(<< "s", "e", "l", "f" >>, job)
    /\ pc' = "start"
    /\ lastOp' = "shell_command_from_job"
    /\ UNCHANGED << config, m_job_id, m_repetition_id, m_args, err, ret,
                    lastName, normal0, requested, extracted >>
    /\ UNCHANGED builderVars
    /\ UNCHANGED << portVars, callerVars >>

NextCodec ==
    \/ Encode
    \/ ParseCommandline
    \/ \E name \in NamePool : GetS(name)
    \/ NoFurtherArguments

SpecCodec == InitCodec /\ [][NextCodec]_vars

\* An ID as the unsigned integer it denotes, in the width of the Job's ids.
Widened(id) == id \o ZeroLimbs(ULongLimbs - IDLimbs)

\* C11: round trip.  For every Job (any ids, any parameter names that are
\* non-empty and not the separator), decoding the tokens the encoder produced
\* yields the same job_id, the same repetition_id and the same parameters:
\* the decoded map has exactly the Job's names, each with the Job's value,
\* and get_s returns that value.
C11_RoundTrip ==
    (job # NoJob /\ pc \notin {"job", "start"}) =>
        /\ pc = "parsed"
        /\ Widened(m_job_id) = job.job_id
        /\ Widened(m_repetition_id) = job.repetition_id
        /\ Keys(normal0) = Keys(job.parameters)
        /\ \A name \in Keys(job.parameters) : normal0[name] = job.parameters[name]
        /\ (lastOp = "get_s" /\ err = NoError) => ret.s = job.parameters[lastName]

\* ------------------------------------------------------------------------
\* The scenario of the tests: "--id=4 --rep=7 -- a=b", handed to
\* parse_commandline with and without a program name in front
\* ------------------------------------------------------------------------

ScenarioTokens ==
    << << "-", "-", "i", "d", "=", "4" >>,
       << "-", "-", "r", "e", "p", "=", "7" >>,
       Separator,
       << "a", "=", "b" >> >>

\* The argument vector as main receives it, argv[0] being the program name.
ScenarioArgv == << << "s", "e", "l", "f" >> >> \o ScenarioTokens

ScenarioNames ==
    { << "a" >>, << "b" >>,
      << "n", "o", "n", "e", "x", "i", "s", "t", "e", "n", "t" >> }

InitScenario ==
    /\ argv \in { ScenarioTokens, ScenarioArgv }
    /\ config = DefaultConfig
    /\ pc = "start"
    /\ m_job_id = ZeroLimbs(IDLimbs)
    /\ m_repetition_id = ZeroLimbs(IDLimbs)
    /\ m_args = EmptyMap
    /\ err = NoError
    /\ ret = NoReturn
    /\ lastOp = "none"
    /\ lastName = << >>
    /\ normal0 = EmptyMap
    /\ requested = {}
    /\ extracted = {}
    /\ NoBuilder
    /\ NoPort
    /\ NoCallers

NextScenario ==
    \/ ParseCommandline
    \/ \E name \in ScenarioNames : GetS(name)
    \/ \E name \in ScenarioNames : GetI(name)
    \/ \E name \in ScenarioNames : GetU(name)
    \/ \E name \in ScenarioNames : GetD(name)
    \/ \E name \in ScenarioNames : GetB(name)
    \/ NoFurtherArguments

SpecScenario == InitScenario /\ [][NextScenario]_vars

\* parse_commandline, called with the vector av, returned an Args with
\* job_id 4 and repetition_id 7.
ScenarioDecoded(av) ==
    (argv = av /\ pc # "start") =>
        /\ pc = "parsed"
        /\ m_job_id = [i \in 1..IDLimbs |-> IF i = 1 THEN 4 ELSE 0]
        /\ m_repetition_id = [i \in 1..IDLimbs |-> IF i = 1 THEN 7 ELSE 0]

\* On the Args of the vector av, the first get_s("a") returns "b" and a
\* get_s("nonexistent") after it fails with MissingParameterError.
ScenarioGets(av) ==
    (argv = av /\ pc = "parsed" /\ lastOp' = "get_s") =>
        /\ (lastName' = << "a" >> /\ << "a" >> \notin requested) =>
              (err' = NoError /\ ret'.type = "s" /\ ret'.s = << "b" >>)
        /\ (lastName' = << "n", "o", "n", "e", "x", "i", "s", "t", "e", "n", "t" >>
            /\ << "a" >> \in extracted) =>
              err'.kind = "MissingParameterError"

IsDecimalId(s) == IsDecimalNumeral(s) /\ ~DecimalValue(s, Len(s)).overflow

\* C13: the values of the job-id and repetition-id tokens are read in base
\* 10.  Whenever the command line reaches the conversion of the ids and both
\* values consist of decimal digits only (leading zeros included),
\* parse_commandline returns an Args whose job_id and repetition_id are the
\* base-10 values of the digit strings.
C13_IdsReadInBaseTen ==
    ( /\ pc # "start"
      /\ ReachesIdConversion
      /\ IsDecimalId(LastValue(SpecialPositions, config.job_id_key))
      /\ IsDecimalId(LastValue(SpecialPositions, config.repetition_id_key)) )
    => /\ pc = "parsed"
       /\ m_job_id =
            DecimalValue(LastValue(SpecialPositions, config.job_id_key),
                         Len(LastValue(SpecialPositions, config.job_id_key))).limbs
       /\ m_repetition_id =
            DecimalValue(LastValue(SpecialPositions, config.repetition_id_key),
                         Len(LastValue(SpecialPositions, config.repetition_id_key))).limbs

\* The digits of the bases an integer literal may be written in.
LiteralDigit ==
    << "0", "1", "2", "3", "4", "5", "6", "7", "8", "9",
       "a", "b", "c", "d", "e", "f" >>

LiteralDigitUpper ==
    << "0", "1", "2", "3", "4", "5", "6", "7", "8", "9",
       "A", "B", "C", "D", "E", "F" >>

IsLiteralDigit(c, base) ==
    \E v \in 1..base : LiteralDigit[v] = c \/ LiteralDigitUpper[v] = c

LiteralDigitValue(c) ==
    (CHOOSE v \in 1..16 : LiteralDigit[v] = c \/ LiteralDigitUpper[v] = c) - 1

\* The text of a literal behind its sign.
Unsigned(s) == IF s # << >> /\ s[1] \in {"+", "-"} THEN Tail(s) ELSE s

IsNegative(s) == s # << >> /\ s[1] = "-"

\* The base an unsigned literal is written in: 16 behind "0x", 8 behind a
\* further "0", else 10.
LiteralBase(u) ==
    IF Len(u) >= 3 /\ u[1] = "0" /\ u[2] \in {"x", "X"} THEN 16
    ELSE IF Len(u) >= 2 /\ u[1] = "0" THEN 8
    ELSE 10

\* The digits of an unsigned literal, behind the prefix of its base.
LiteralBody(u) == IF LiteralBase(u) = 16 THEN SubSeq(u, 3, Len(u)) ELSE u

\* A string is an integer literal: an optional sign, an optional base prefix
\* and digits of that base, nothing before and nothing behind.
IsIntegerLiteral(s) ==
    /\ LiteralBody(Unsigned(s)) # << >>
    /\ \A i \in 1..Len(LiteralBody(Unsigned(s))) :
          IsLiteralDigit(LiteralBody(Unsigned(s))[i], LiteralBase(Unsigned(s)))

\* The magnitude the first n digits d denote in a base, in 32 bits, and
\* whether it lies beyond them.
RECURSIVE Magnitude(_, _, _)
Magnitude(d, n, base) ==
    IF n = 0 THEN [limbs |-> ZeroLimbs(IDLimbs), overflow |-> FALSE]
    ELSE LET before == Magnitude(d, n - 1, base)
             r      == MulAdd(before.limbs, base, LiteralDigitValue(d[n]))
         IN  [limbs |-> r.limbs, overflow |-> before.overflow \/ r.overflow]

LiteralMagnitude(s) ==
    Magnitude(LiteralBody(Unsigned(s)), Len(LiteralBody(Unsigned(s))),
              LiteralBase(Unsigned(s)))

\* The least int has the magnitude 2^31.
IsLeastInt(s) ==
    /\ IsNegative(s)
    /\ ~LiteralMagnitude(s).overflow
    /\ LiteralMagnitude(s).limbs = [i \in 1..IDLimbs |-> IF i = IDLimbs THEN LimbBase \div 2 ELSE 0]

\* The literal denotes a number of the range of int.
InIntRange(s) ==
    \/ IsLeastInt(s)
    \/ /\ ~LiteralMagnitude(s).overflow
       /\ LiteralMagnitude(s).limbs[IDLimbs] < LimbBase \div 2

\* The int an in-range literal denotes.
IntDenoted(s) ==
    IF IsLeastInt(s) THEN -(LimbBase \div 2 - 1) * LimbBase - LimbBase
    ELSE IF IsNegative(s)
    THEN -(LiteralMagnitude(s).limbs[2] * LimbBase + LiteralMagnitude(s).limbs[1])
    ELSE LiteralMagnitude(s).limbs[2] * LimbBase + LiteralMagnitude(s).limbs[1]

\* C14: get_i returns the integer denoted by the whole stored string,
\* negative values included; it fails with CoercionError, naming the
\* parameter and the string, when the string is no integer literal up to its
\* end (a trailing character remains) and when the literal lies outside the
\* range of int, and the error tells the two cases apart.
C14_GetIntegerWholeString ==
    (lastOp = "get_i" /\ err.kind # "MissingParameterError") =>
        LET stored == normal0[lastName]
        IN  /\ (IsIntegerLiteral(stored) /\ InIntRange(stored)) =>
                (err = NoError /\ ret.type = "i" /\ ret.i = IntDenoted(stored))
            /\ (IsIntegerLiteral(stored) /\ ~InIntRange(stored)) =>
                /\ err.kind = "CoercionError"
                /\ err.detail = "is out of range"
                /\ err.name = lastName /\ err.arg = stored
                /\ ret = NoReturn
            /\ ~IsIntegerLiteral(stored) =>
                /\ err.kind = "CoercionError"
                /\ err.detail = "is not"
                /\ err.name = lastName /\ err.arg = stored
                /\ ret = NoReturn

\* get_i rejected the stored string "2147483648" as out of range.
C14_Witness_OutOfRange ==
    /\ lastOp = "get_i"
    /\ err.kind = "CoercionError"
    /\ err.detail = "is out of range"
    /\ normal0[lastName] = << "2", "1", "4", "7", "4", "8", "3", "6", "4", "8" >>

\* ------------------------------------------------------------------------
\* A caller that hands parse_commandline a JobArgvConfig of its own
\* ------------------------------------------------------------------------

\* A JobArgvConfig whose two keys were assigned other names.
RenamedConfig ==
    [job_id_key        |-> << "-", "-", "j", "o", "b" >>,
     repetition_id_key |-> << "-", "-", "r", "u", "n" >>]

\* The tokens before the separator: the renamed keys and the default ones.
ConfigSpecialPool ==
    { << "-", "-", "j", "o", "b", "=", "4" >>,
      << "-", "-", "r", "u", "n", "=", "7" >>,
      << "-", "-", "i", "d", "=", "9" >>,
      << "-", "-", "r", "e", "p", "=", "1" >> }

ConfigArgvSet ==
    { << << "s", "e", "l", "f" >> >> \o sp \o mid \o no :
        sp  \in SeqsUpTo(ConfigSpecialPool, MaxSpecial + 1),
        mid \in { << >>, << Separator >> },
        no  \in { << >>, << << "b", "=" >> >> } }

InitConfig ==
    /\ argv \in ConfigArgvSet
    /\ config \in { DefaultConfig, RenamedConfig }
    /\ pc = "start"
    /\ m_job_id = ZeroLimbs(IDLimbs)
    /\ m_repetition_id = ZeroLimbs(IDLimbs)
    /\ m_args = EmptyMap
    /\ err = NoError
    /\ ret = NoReturn
    /\ lastOp = "none"
    /\ lastName = << >>
    /\ normal0 = EmptyMap
    /\ requested = {}
    /\ extracted = {}
    /\ NoBuilder
    /\ NoPort
    /\ NoCallers

NextConfig ==
    \/ ParseCommandline
    \/ \E name \in ArgNames : GetS(name)
    \/ NoFurtherArguments

SpecConfig == InitConfig /\ [][NextConfig]_vars

\* C15: the two special keys are exactly config.job_id_key and
\* config.repetition_id_key.  On a command line whose tokens all split: when
\* one of the two configured keys is missing, parse_commandline fails with
\* MissingSpecialArgumentError, whatever other keys are there; when both are
\* there and no other key is, the ids are the values of the tokens carrying
\* the configured keys; and every other key of the special region, the
\* default "--id" and "--rep" under a renaming config included, is reported
\* as an unknown special argument.
C15_ConfiguredKeys ==
    (pc # "start" /\ AllTokensSplit) =>
        /\ LacksAnId => (pc = "failed" /\ err.kind = "MissingSpecialArgumentError")
        /\ BothIdsAndMore => UnknownSpecialReported
        /\ (~LacksAnId /\ OtherSpecialKeys = {}) =>
              /\ pc = "parsed"
              /\ m_job_id =
                   DecimalValue(LastValue(SpecialPositions, config.job_id_key),
                                Len(LastValue(SpecialPositions, config.job_id_key))).limbs
              /\ m_repetition_id =
                   DecimalValue(LastValue(SpecialPositions, config.repetition_id_key),
                                Len(LastValue(SpecialPositions, config.repetition_id_key))).limbs

\* Under the renaming config, parse_commandline found both renamed keys and
\* reported the default key "--id" as unknown.
C15_Witness_DefaultKeyUnknown ==
    /\ config = RenamedConfig
    /\ pc = "failed"
    /\ err.kind = "UnknownSpecialArgumentError"
    /\ err.keys = << << "-", "-", "i", "d" >> >>

\* ------------------------------------------------------------------------
\* multijob.job (Python): JobBuilder, Job and JobResult
\* ------------------------------------------------------------------------

\* The most parameters a builder of the model registers is MaxParams, above;
\* the largest repetitions argument handed to build.
MaxRepetitions == 2

\* The largest n handed to add_linspace.
MaxCount == 3

\* The values of a range or a linspace are kept exact, as reduced fractions
\* num / den with den > 0; the rounding of the floats is not represented.
Abs(n) == IF n < 0 THEN -n ELSE n

RECURSIVE Gcd(_, _)
Gcd(a, b) == IF b = 0 THEN a ELSE Gcd(b, a % b)

Float(n, d) ==
    [num |-> n \div Gcd(Abs(n), d), den |-> d \div Gcd(Abs(n), d)]

FloatAdd(x, y) == Float(x.num * y.den + y.num * x.den, x.den * y.den)

FloatSub(x, y) == Float(x.num * y.den - y.num * x.den, x.den * y.den)

\* x * k / m, for m > 0.
FloatScale(x, k, m) == Float(x.num * k, x.den * m)

FloatLessEq(x, y) == x.num * y.den <= y.num * x.den

Sign(x) == IF x.num > 0 THEN 1 ELSE IF x.num < 0 THEN -1 ELSE 0

\* start, start + stride, start + 2 * stride, ... while the value is <= stop.
RECURSIVE range(_, _, _)
range(x, stop, stride) ==
    IF FloatLessEq(x, stop)
    THEN << x >> \o range(FloatAdd(x, stride), stop, stride)
    ELSE << >>

\* n values evenly spaced over [start, stop], both endpoints included.
linspace(start, stop, n) ==
    [i \in 1..n |->
        IF n = 1 THEN start
        ELSE FloatAdd(start, FloatScale(FloatSub(stop, start), i - 1, n - 1))]

\* The names registered so far.
Names(m) == { m[i].name : i \in DOMAIN m }

BuilderFailure(m, kind, name, detail) ==
    [ok |-> FALSE, matrix |-> m, err |-> Error(kind, name, << >>, << >>, detail)]

\* JobBuilder.add(name, *values)
add(m, name, values) ==
    IF name \in Names(m)
    THEN BuilderFailure(m, "DuplicateParameterError", name, "already registered")
    ELSE [ok |-> TRUE, matrix |-> Append(m, [name |-> name, values |-> values]),
          err |-> NoError]

\* JobBuilder.add_range(name, start, stop, stride)
add_range(m, name, start, stop, stride) ==
    IF stride.num = 0 \/ Sign(stride) # Sign(FloatSub(stop, start))
    THEN BuilderFailure(m, "InvalidRangeError", name, "stride")
    ELSE add(m, name, range(start, stop, stride))

\* Mutant of add_linspace: the n values leave the stop out.
add_linspace_open(m, name, start, stop, n) ==
    IF n < 1
    THEN BuilderFailure(m, "InvalidRangeError", name, "n")
    ELSE add(m, name, [i \in 1..n |->
                          FloatAdd(start, FloatScale(FloatSub(stop, start), i - 1, n))])

\* JobBuilder.add_linspace(name, start, stop, n)
add_linspace(m, name, start, stop, n) ==
    IF n < 1
    THEN BuilderFailure(m, "InvalidRangeError", name, "n")
    ELSE add(m, name, linspace(start, stop, n))

\* Mutant of number_of_jobs: a builder without parameters has no job.
RECURSIVE number_of_jobs_empty_is_zero(_)
number_of_jobs_empty_is_zero(m) ==
    IF m = << >> THEN 0
    ELSE IF Len(m) = 1 THEN Len(m[1].values)
    ELSE Len(m[1].values) * number_of_jobs_empty_is_zero(Tail(m))

\* JobBuilder.number_of_jobs()
RECURSIVE number_of_jobs(_)
number_of_jobs(m) ==
    IF m = << >> THEN 1
    ELSE Len(m[1].values) * number_of_jobs(Tail(m))

\* The inner loops of the enumeration, run once with the outer parameter
\* at the value v.
WithValue(name, v, rest) ==
    [k \in 1..Len(rest) |-> MapPut(rest[k], name, v)]

\* The loop over the values of the parameter p, from its i-th value on.
RECURSIVE ValueLoop(_, _, _)
ValueLoop(p, i, rest) ==
    IF i > Len(p.values) THEN << >>
    ELSE WithValue(p.name, p.values[i], rest) \o ValueLoop(p, i + 1, rest)

\* Mutant of product: the first-added parameter is the inner loop.
RECURSIVE product_first_fastest(_)
product_first_fastest(m) ==
    IF m = << >> THEN << EmptyMap >>
    ELSE ValueLoop(m[Len(m)], 1, product_first_fastest(SubSeq(m, 1, Len(m) - 1)))

\* The combinations of the matrix: the first parameter is the outer loop.
RECURSIVE product(_)
product(m) ==
    IF m = << >> THEN << EmptyMap >>
    ELSE ValueLoop(m[1], 1, product(Tail(m)))

\* The Jobs of one combination.
Repetitions(job_id, parameters, worker, R) ==
    [r \in 1..R |-> [job_id |-> job_id, repetition_id |-> r - 1,
                     parameters |-> parameters, worker |-> worker]]

\* Mutant of JobLoop: the repetitions are the outer loop.
JobLoop_repetitions_outside(combinations, i, worker, R) ==
    [k \in 1..(Len(combinations) * R) |->
        [job_id |-> (k - 1) % Len(combinations),
         repetition_id |-> (k - 1) \div Len(combinations),
         parameters |-> combinations[((k - 1) % Len(combinations)) + 1],
         worker |-> worker]]

\* The loop over the combinations, from the i-th on: its position is the job id.
RECURSIVE JobLoop(_, _, _, _)
JobLoop(combinations, i, worker, R) ==
    IF i > Len(combinations) THEN << >>
    ELSE Repetitions(i - 1, combinations[i], worker, R)
             \o JobLoop(combinations, i + 1, worker, R)

BuildFailure(kind, detail) ==
    [ok |-> FALSE, jobs |-> << >>, err |-> Error(kind, << >>, << >>, << >>, detail)]

\* JobBuilder.build(worker, repetitions)
build(m, worker, R) ==
    IF R < 1
    THEN BuildFailure("InvalidRepetitionsError", "repetitions")
    ELSE IF \E i \in DOMAIN m : m[i].values = << >>
    THEN BuildFailure("EmptyMatrixError", "values")
    ELSE [ok |-> TRUE, jobs |-> JobLoop(product(m), 1, worker, R), err |-> NoError]

\* The workers of the model: "noop" returns for every Job, "raises" raises
\* for every Job, "divides" raises for the Jobs with a parameter that is 0.
WorkerPool == { "noop", "raises", "divides" }

WorkerRaises(j) ==
    \/ j.worker = "raises"
    \/ j.worker = "divides" /\ \E k \in DOMAIN j.parameters : j.parameters[k].num = 0

NoJobResult == [job |-> NoJob, result |-> "none", error |-> "none"]

\* Mutant of run: the failure of the worker leaves run as an exception.
run_propagates(j) ==
    IF WorkerRaises(j)
    THEN [returned |-> FALSE, result |-> NoJobResult,
          err |-> Error("WorkerError", << >>, << >>, << >>, j.worker)]
    ELSE [returned |-> TRUE, err |-> NoError,
          result |-> [job |-> j, result |-> "value", error |-> "none"]]

\* Job.run(): the outcome of the worker becomes a JobResult.
run(j) ==
    [returned |-> TRUE, err |-> NoError,
     result |-> IF WorkerRaises(j)
                THEN [job |-> j, result |-> "none", error |-> "WorkerError"]
                ELSE [job |-> j, result |-> "value", error |-> "none"]]

\* The names and the values the callers of the model hand to the builder.
BuilderNames == { << "a" >>, << "b" >>, << "c" >> }

ValueLists ==
    { << Float(0, 1), Float(1, 1) >>,
      << Float(1, 1), Float(1, 1) >>,
      << Float(1, 1), Float(2, 1), Float(3, 1) >> }

\* start, stop, stride of the add_range calls.
RangePool ==
    { << Float(0, 1), Float(5, 1), Float(5, 2) >>,
      << Float(0, 1), Float(5, 1), Float(0, 1) >>,
      << Float(0, 1), Float(5, 1), Float(-1, 1) >> }

\* start, stop of the add_linspace calls.
LinspaceEnds ==
    { << Float(0, 1), Float(1, 1) >>,
      << Float(6, 1), Float(3, 1) >> }

\* What every call of a builder method does to the state; r is its outcome.
BuilderCall(op, name, args, r) ==
    /\ pc = "builder"
    /\ matrix' = r.matrix
    /\ lastArgs' = args
    /\ err' = r.err
    /\ ret' = NoReturn
    /\ lastOp' = op
    /\ lastName' = name
    /\ UNCHANGED << argv, config, pc, m_job_id, m_repetition_id, m_args,
                    normal0, requested, extracted >>
    /\ UNCHANGED << job, jobs, results, repetitions >>
    /\ UNCHANGED << portVars, callerVars >>

\* A call that registers a parameter: the model's builders hold at most
\* MaxParams parameters.
Registers(name) == name \in Names(matrix) \/ Len(matrix) < MaxParams

Add(name, values) ==
    /\ Registers(name)
    /\ BuilderCall("add", name, << >>, add(matrix, name, values))

AddRange(name, start, stop, stride) ==
    /\ Registers(name)
    /\ BuilderCall("add_range", name, << start, stop, stride >>,
                   add_range(matrix, name, start, stop, stride))

AddLinspace(name, start, stop, n) ==
    /\ Registers(name)
    /\ BuilderCall("add_linspace", name, << start, stop, n >>,
                   add_linspace(matrix, name, start, stop, n))

NumberOfJobs ==
    /\ pc = "builder"
    /\ ret' = [NoReturn EXCEPT !.type = "n", !.i = number_of_jobs(matrix)]
    /\ err' = NoError
    /\ lastOp' = "number_of_jobs"
    /\ lastName' = << >>
    /\ lastArgs' = << >>
    /\ UNCHANGED << argv, config, pc, m_job_id, m_repetition_id, m_args,
                    normal0, requested, extracted >>
    /\ UNCHANGED << job, matrix, jobs, results, repetitions >>
    /\ UNCHANGED << portVars, callerVars >>

\* jobs = builder.build(worker, repetitions = R): the caller's list is
\* replaced when build returns.
Built(R, r) ==
    /\ pc = "builder"
    /\ jobs' = IF r.ok THEN r.jobs ELSE jobs
    /\ results' = IF r.ok THEN << >> ELSE results
    /\ repetitions' = R
    /\ err' = r.err
    /\ ret' = NoReturn
    /\ lastOp' = "build"
    /\ lastName' = << >>
    /\ lastArgs' = << >>
    /\ UNCHANGED << argv, config, pc, m_job_id, m_repetition_id, m_args,
                    normal0, requested, extracted >>
    /\ UNCHANGED << job, matrix >>
    /\ UNCHANGED << portVars, callerVars >>

Build(worker, R) == Built(R, build(matrix, worker, R))

\* One turn of the caller's loop "for job in jobs: results.append(job.run())".
Ran(r) ==
    /\ results' = IF r.returned THEN Append(results, r.result) ELSE results
    /\ err' = r.err
    /\ pc' = IF r.returned THEN pc ELSE "aborted"
    /\ ret' = NoReturn
    /\ lastOp' = "run"
    /\ lastName' = << >>
    /\ lastArgs' = << >>
    /\ UNCHANGED << argv, config, m_job_id, m_repetition_id, m_args,
                    normal0, requested, extracted >>
    /\ UNCHANGED << job, matrix, jobs, repetitions >>
    /\ UNCHANGED << portVars, callerVars >>

Run ==
    /\ pc = "builder"
    /\ Len(results) < Len(jobs)
    /\ Ran(run(jobs[Len(results) + 1]))

InitBuilder ==
    /\ argv = << >>
    /\ config = DefaultConfig
    /\ pc = "builder"
    /\ m_job_id = ZeroLimbs(IDLimbs)
    /\ m_repetition_id = ZeroLimbs(IDLimbs)
    /\ m_args = EmptyMap
    /\ err = NoError
    /\ ret = NoReturn
    /\ lastOp = "none"
    /\ lastName = << >>
    /\ normal0 = EmptyMap
    /\ requested = {}
    /\ extracted = {}
    /\ NoBuilder
    /\ NoPort
    /\ NoCallers

\* Parameters with explicit values are registered, counted and built.
NextBuilder ==
    \/ \E name \in BuilderNames, values \in ValueLists : Add(name, values)
    \/ NumberOfJobs
    \/ \E R \in 0..MaxRepetitions : Build("noop", R)

SpecBuilder == InitBuilder /\ [][NextBuilder]_vars

\* Parameters are registered as ranges and linspaces, and counted.
NextRange ==
    \/ \E name \in BuilderNames, r \in RangePool : AddRange(name, r[1], r[2], r[3])
    \/ \E name \in BuilderNames, e \in LinspaceEnds, n \in -1..MaxCount :
          AddLinspace(name, e[1], e[2], n)
    \/ NumberOfJobs

SpecRange == InitBuilder /\ [][NextRange]_vars

\* A batch is built and run: the builders of this specification get
\* two-valued parameters only.
NextRun ==
    \/ \E name \in BuilderNames : Add(name, << Float(0, 1), Float(1, 1) >>)
    \/ \E worker \in WorkerPool, R \in 1..MaxRepetitions : Build(worker, R)
    \/ Run

SpecRun == InitBuilder /\ [][NextRun]_vars

\* ------------------------------------------------------------------------
\* Properties of the builder
\* ------------------------------------------------------------------------

\* build has just returned the Jobs of the present matrix.
JustBuilt == lastOp = "build" /\ err = NoError

\* The number of combinations of the parameters after the i-th.
RECURSIVE Weight(_)
Weight(i) ==
    IF i >= Len(matrix) THEN 1 ELSE Len(matrix[i + 1].values) * Weight(i + 1)

\* The mixed-radix digit of the position pos at the i-th parameter: the
\* first parameter has the most significant digit.
Digit(pos, i) == (pos \div Weight(i)) % Len(matrix[i].values)

\* The Job at the 0-based position of its job_id holds the values the
\* digits of that position select.
MixedRadixOrder ==
    \A k \in DOMAIN jobs :
        /\ jobs[k].job_id \in 0..(Weight(0) - 1)
        /\ DOMAIN jobs[k].parameters = Names(matrix)
        /\ \A i \in DOMAIN matrix :
              jobs[k].parameters[matrix[i].name]
                  = matrix[i].values[Digit(jobs[k].job_id, i) + 1]

\* The job ids count the combinations from 0 in the order of the Jobs.
PositionsCounted ==
    /\ jobs # << >>
    /\ jobs[1].job_id = 0
    /\ jobs[Len(jobs)].job_id = Weight(0) - 1
    /\ \A k \in 1..(Len(jobs) - 1) :
          jobs[k + 1].job_id \in { jobs[k].job_id, jobs[k].job_id + 1 }

SameIdSameParameters ==
    \A k, l \in DOMAIN jobs :
        jobs[k].job_id = jobs[l].job_id => jobs[k].parameters = jobs[l].parameters

SameParametersSameId ==
    \A k, l \in DOMAIN jobs :
        jobs[k].parameters = jobs[l].parameters => jobs[k].job_id = jobs[l].job_id

\* No value list of the matrix holds a value twice.
ValuesDistinct ==
    \A i \in DOMAIN matrix :
        \A a, b \in DOMAIN matrix[i].values :
            matrix[i].values[a] = matrix[i].values[b] => a = b

\* C16 as stated: after build the Jobs are the combinations in mixed-radix
\* order, the first-added parameter slowest, job_id is the 0-based position
\* of the combination, and two Jobs have the same job_id if and only if they
\* have the same parameter values.
C16_Original_IdIffParameters ==
    JustBuilt =>
        /\ MixedRadixOrder
        /\ PositionsCounted
        /\ SameIdSameParameters
        /\ SameParametersSameId

\* C16, amended: after build the Jobs are the combinations in mixed-radix
\* order, the first-added parameter slowest, and job_id is the 0-based
\* position of the combination, which the matrix alone determines; Jobs with
\* the same job_id have the same parameter values, and Jobs with the same
\* parameter values have the same job_id when no value list holds a value
\* twice.
C16_MixedRadixOrder ==
    JustBuilt =>
        /\ MixedRadixOrder
        /\ PositionsCounted
        /\ SameIdSameParameters
        /\ ValuesDistinct => SameParametersSameId

\* build has enumerated a two-valued parameter added first and a
\* three-valued parameter added second: the Job with job_id 5 holds the
\* last value of both, the Job with job_id 2 the first value of the first
\* parameter and the last of the second.
C16_Witness_TwoByThree ==
    /\ JustBuilt
    /\ Len(matrix) = 2
    /\ matrix[1].values = << Float(0, 1), Float(1, 1) >>
    /\ matrix[2].values = << Float(1, 1), Float(2, 1), Float(3, 1) >>
    /\ \E k, l \in DOMAIN jobs :
          /\ jobs[k].job_id = 5
          /\ jobs[k].parameters[matrix[1].name] = Float(1, 1)
          /\ jobs[k].parameters[matrix[2].name] = Float(3, 1)
          /\ jobs[l].job_id = 2
          /\ jobs[l].parameters[matrix[1].name] = Float(0, 1)
          /\ jobs[l].parameters[matrix[2].name] = Float(3, 1)

\* C17: build(worker, repetitions = R) with R >= 1 returns
\* number_of_jobs() * R Jobs; the Jobs of every job_id are R consecutive
\* Jobs with the same parameters and the repetition ids 0, 1, ..., R - 1.
C17_Repetitions ==
    (JustBuilt /\ repetitions >= 1) =>
        /\ Len(jobs) = number_of_jobs(matrix) * repetitions
        /\ \A id \in 0..(number_of_jobs(matrix) - 1) :
              /\ { k \in DOMAIN jobs : jobs[k].job_id = id }
                     = (id * repetitions + 1)..(id * repetitions + repetitions)
              /\ \A r \in 0..(repetitions - 1) :
                    /\ jobs[id * repetitions + r + 1].repetition_id = r
                    /\ jobs[id * repetitions + r + 1].parameters
                           = jobs[id * repetitions + 1].parameters

\* build returned two repetitions of each of six combinations.
C17_Witness_TwoRepetitions ==
    /\ JustBuilt
    /\ repetitions = 2
    /\ number_of_jobs(matrix) = 6
    /\ Len(jobs) = 12
    /\ jobs[4].job_id = 1
    /\ jobs[4].repetition_id = 1

\* The length of the longest value list of the matrix.
LongestList ==
    IF matrix = << >> THEN 0
    ELSE CHOOSE n \in { Len(matrix[i].values) : i \in DOMAIN matrix } :
             \A i \in DOMAIN matrix : Len(matrix[i].values) <= n

\* The ways to choose one position in every value list of the matrix.
Choices ==
    { f \in [DOMAIN matrix -> 1..LongestList] :
        \A i \in DOMAIN matrix : f[i] <= Len(matrix[i].values) }

\* C18: number_of_jobs() returns the number of combinations, the product of
\* the lengths of the value lists; 1 for a builder without parameters; the
\* repetitions of a build do not enter it.
C18_NumberOfJobs ==
    lastOp = "number_of_jobs" =>
        /\ ret.i = Cardinality(Choices)
        /\ ret.i = Weight(0)
        /\ matrix = << >> => ret.i = 1

\* number_of_jobs() returned 6 for the matrix build had made 12 Jobs of,
\* two repetitions each.
C18_Witness_AfterRepetitions ==
    /\ lastOp = "number_of_jobs"
    /\ ret.i = 6
    /\ repetitions = 2
    /\ Len(jobs) = 12
    /\ Len(matrix) = 2


\* The values of the parameter registered last.
LastValues == matrix[Len(matrix)].values

\* add_linspace(name, a, b, n) has just been called.
LinspaceCalled == lastOp = "add_linspace"

\* Its arguments.
LinspaceStart == lastArgs[1]

LinspaceStop == lastArgs[2]

LinspaceCount == lastArgs[3]

\* The call registered the name with its values: it fails for a name that
\* is registered already.
LinspaceRegistered == LinspaceCalled /\ LinspaceCount >= 1 /\ err = NoError

\* What add_linspace does apart from the last value: n < 1 fails with
\* InvalidRangeError; n >= 1 registers the name with exactly n values, the
\* first of which is a, unless the name is registered already; for n = 1
\* the list is [a].
LinspaceCounted ==
    /\ (LinspaceCalled /\ LinspaceCount < 1) => err.kind = "InvalidRangeError"
    /\ (LinspaceCalled /\ LinspaceCount >= 1) =>
           err.kind \in { "none", "DuplicateParameterError" }
    /\ LinspaceRegistered =>
           /\ matrix[Len(matrix)].name = lastName
           /\ Len(LastValues) = LinspaceCount
           /\ LastValues[1] = LinspaceStart
           /\ LinspaceCount = 1 => LastValues = << LinspaceStart >>

C20_RunCapturesFailure ==
    /\ pc # "aborted"
    /\ lastOp = "run" => err = NoError
    /\ Len(results) <= Len(jobs)
    /\ Len(results) < Len(jobs) => ENABLED Run
    /\ \A k \in DOMAIN results :
          /\ results[k].job = jobs[k]
          /\ WorkerRaises(jobs[k]) =>
                (results[k].error = "WorkerError" /\ results[k].result = "none")
          /\ ~WorkerRaises(jobs[k]) =>
                (results[k].error = "none" /\ results[k].result = "value")

\* A batch was run to its end past a Job whose worker failed: a later Job
\* has its result.
C20_Witness_PastFailure ==
    /\ jobs # << >>
    /\ Len(results) = Len(jobs)
    /\ \E k, l \in DOMAIN results :
          /\ k < l
          /\ results[k].error = "WorkerError"
          /\ results[l].error = "none"

\* ------------------------------------------------------------------------
\* Command lines with several defects at once
\* ------------------------------------------------------------------------

\* A process started with one of the argument vectors of S and the default
\* JobArgvConfig.
StartedWith(S) ==
    /\ argv \in S
    /\ config = DefaultConfig
    /\ pc = "start"
    /\ m_job_id = ZeroLimbs(IDLimbs)
    /\ m_repetition_id = ZeroLimbs(IDLimbs)
    /\ m_args = EmptyMap
    /\ err = NoError
    /\ ret = NoReturn
    /\ lastOp = "none"
    /\ lastName = << >>
    /\ normal0 = EmptyMap
    /\ requested = {}
    /\ extracted = {}
    /\ NoBuilder
    /\ NoPort
    /\ NoCallers

\* Special tokens with a good and a bad value for either id, an unknown
\* key, and a token that does not split.
DefectSpecialPool ==
    { << "-", "-", "i", "d", "=", "4" >>,
      << "-", "-", "i", "d", "=", "x" >>,
      << "-", "-", "r", "e", "p", "=", "7" >>,
      << "-", "-", "r", "e", "p", "=", "y" >>,
      << "-", "-", "z", "z", "=", "0" >>,
      << "-", "-", "i", "d" >> }

DefectArgvSet ==
    { << << "s", "e", "l", "f" >> >> \o sp \o mid \o no :
        sp  \in SeqsUpTo(DefectSpecialPool, MaxSpecial + 1),
        mid \in { << >>, << Separator >> },
        no  \in { << >>, << << "b", "=" >> >>, << << "x" >> >> } }

InitDefects == StartedWith(DefectArgvSet)

NextDefects ==
    \/ ParseCommandline
    \/ \E name \in ArgNames : GetS(name)
    \/ NoFurtherArguments

SpecDefects == InitDefects /\ [][NextDefects]_vars

JobIdName == << "j", "o", "b", "_", "i", "d" >>

RepetitionIdName == << "r", "e", "p", "e", "t", "i", "t", "i", "o", "n", "_", "i", "d" >>

\* The value of an id token cannot be parsed: it is no number.
Unparseable(s) == ~IsNumeric(s)

\* The earliest stage at which the command line is defective, "none" if it
\* has no defect: a token that does not split, a missing job id, a missing
\* repetition id, an unknown special key, a bad job id, a bad repetition id.
EarliestDefect ==
    IF ~AllTokensSplit THEN "split"
    ELSE IF config.job_id_key \notin RegionKeys(SpecialPositions) THEN "job_id_key"
    ELSE IF config.repetition_id_key \notin RegionKeys(SpecialPositions)
    THEN "repetition_id_key"
    ELSE IF OtherSpecialKeys # {} THEN "unknown"
    ELSE IF Unparseable(LastValue(SpecialPositions, config.job_id_key))
    THEN "job_id_value"
    ELSE IF Unparseable(LastValue(SpecialPositions, config.repetition_id_key))
    THEN "repetition_id_value"
    ELSE "none"

\* The stage the error parse_commandline reported belongs to.
ReportedDefect ==
    CASE err.kind = "MalformedArgumentError" -> "split"
      [] err.kind = "MissingSpecialArgumentError" /\ err.name = config.job_id_key
            -> "job_id_key"
      [] err.kind = "MissingSpecialArgumentError" /\ err.name = config.repetition_id_key
            -> "repetition_id_key"
      [] err.kind = "UnknownSpecialArgumentError" -> "unknown"
      [] err.kind = "InvalidIdError" /\ err.name = JobIdName -> "job_id_value"
      [] err.kind = "InvalidIdError" /\ err.name = RepetitionIdName
            -> "repetition_id_value"
      [] OTHER -> "none"

\* C21: parse_commandline reports the defect of the earliest stage: a token
\* without "=" in either region, then the missing job-id key, then the
\* missing repetition-id key, then unknown special keys, then a job-id value
\* that cannot be parsed, then such a repetition-id value; it returns an Args
\* exactly when the command line has no defect.
C21_ErrorPrecedence ==
    lastOp = "parse_commandline" =>
        /\ ReportedDefect = EarliestDefect
        /\ (pc = "parsed") <=> (EarliestDefect = "none")
        /\ (pc = "failed") <=> (EarliestDefect # "none")

\* parse_commandline reported the token without "=" on a command line that
\* also lacks an id, has an unknown special key and a job id that cannot be
\* parsed.
C21_Witness_SeveralDefects ==
    /\ lastOp = "parse_commandline"
    /\ ReportedDefect = "split"
    /\ LacksAnId
    /\ OtherSpecialKeys # {}
    /\ config.job_id_key \in RegionKeys(SpecialPositions)
    /\ Unparseable(LastValue(SpecialPositions, config.job_id_key))

\* ------------------------------------------------------------------------
\* Keys whose coercion failed
\* ------------------------------------------------------------------------

\* The names of the initial map that were asked for and never returned: the
\* call that asked for them first failed in the coercion.
CoercionFailedNames == (requested \cap Keys(normal0)) \ extracted

\* A get_i, get_u, get_d or get_b call has just failed in the coercion.
CoercionFailed ==
    lastOp \in {"get_i", "get_u", "get_d", "get_b"} /\ err.kind = "CoercionError"

\* A step that calls a get_* with a name whose coercion failed before fails
\* with MissingParameterError, and a step that calls no_further_arguments
\* does not report such a name.
AfterCoercionFailure ==
    \A name \in CoercionFailedNames :
        /\ (IsGet(lastOp') /\ lastName' = name) =>
              err'.kind = "MissingParameterError"
        /\ lastOp' = "no_further_arguments" => name \notin Range(err'.keys)

\* C22: get_i, get_u, get_d and get_b take the key out of the remaining map
\* before they coerce: when the call fails with CoercionError the key is
\* gone, every later get_* of the name fails with MissingParameterError and
\* no_further_arguments never reports the name.
C22_ConsumedBeforeCoercion ==
    /\ [](CoercionFailed =>
            (lastName \in CoercionFailedNames /\ lastName \notin Keys(m_args)))
    /\ [](CoercionFailedNames \cap Keys(m_args) = {})
    /\ [][AfterCoercionFailure]_vars

\* A get_* of a name failed with MissingParameterError: the name was a key
\* of the initial map and no call returned its value, the coercion of an
\* earlier call having failed; another key is still in the map.
C22_Witness_SecondGetMissing ==
    /\ IsGet(lastOp)
    /\ err.kind = "MissingParameterError"
    /\ lastName \in CoercionFailedNames
    /\ Keys(m_args) # {}

\* ------------------------------------------------------------------------
\* Ids at and beyond the width of the ID type
\* ------------------------------------------------------------------------

\* Id tokens whose values lie at the end of the 32-bit range and beyond it.
WideSpecialPool ==
    { << "-", "-", "i", "d", "=", "7" >>,
      << "-", "-", "i", "d", "=", "4", "2", "9", "4", "9", "6", "7", "2", "9", "5" >>,
      << "-", "-", "i", "d", "=", "4", "2", "9", "4", "9", "6", "7", "2", "9", "6" >>,
      << "-", "-", "r", "e", "p", "=", "7" >>,
      << "-", "-", "r", "e", "p", "=", "4", "2", "9", "4", "9", "6", "7", "3", "0", "1" >> }

WideArgvSet ==
    { << << "s", "e", "l", "f" >> >> \o sp \o mid \o no :
        sp  \in SeqsUpTo(WideSpecialPool, MaxSpecial),
        mid \in { << >>, << Separator >> },
        no  \in { << >>, << << "b", "=" >> >>, << << "a", "=", "1" >> >> } }

InitWide == StartedWith(WideArgvSet)

NextWide ==
    \/ ParseCommandline
    \/ \E name \in ArgNames : GetS(name)
    \/ NoFurtherArguments

SpecWide == InitWide /\ [][NextWide]_vars

\* The values of the two id tokens, on a command line that has both.
JobIdValue == LastValue(SpecialPositions, config.job_id_key)

RepetitionIdValue == LastValue(SpecialPositions, config.repetition_id_key)

\* A decimal numeral that denotes a number beyond the 32-bit ID.
BeyondId(s) == IsDecimalNumeral(s) /\ DecimalValue(s, Len(s)).overflow

\* C23: on a command line that reaches the conversion of the ids, with
\* decimal numerals as id values: when both values fit the 32-bit ID,
\* parse_commandline returns an Args whose ids are the numbers the values
\* denote; when one of them does not fit, it fails with InvalidIdError.
C23_IdsFitOrRejected ==
    ( /\ lastOp = "parse_commandline"
      /\ ReachesIdConversion
      /\ IsDecimalNumeral(JobIdValue)
      /\ IsDecimalNumeral(RepetitionIdValue) )
    => IF BeyondId(JobIdValue) \/ BeyondId(RepetitionIdValue)
       THEN pc = "failed" /\ err.kind = "InvalidIdError"
       ELSE /\ pc = "parsed"
            /\ m_job_id = DecimalValue(JobIdValue, Len(JobIdValue)).limbs
            /\ m_repetition_id
                 = DecimalValue(RepetitionIdValue, Len(RepetitionIdValue)).limbs

\* ------------------------------------------------------------------------
\* The separator
\* ------------------------------------------------------------------------

\* The positions behind the first separator that hold a "--" again.
LaterSeparators == { i \in NormalPositions : Tokens[i] = Separator }

\* The first token, in the order of argv, that has no "=", the first
\* separator aside.
FirstUnsplit ==
    Tokens[CHOOSE i \in SpecialPositions \cup NormalPositions :
              /\ ~HasEquals(Tokens[i])
              /\ \A j \in SpecialPositions \cup NormalPositions :
                    ~HasEquals(Tokens[j]) => i <= j]

\* C24: only the first "--" separates the regions; a "--" behind it is a
\* normal argument, and as it has no "=", parse_commandline fails with
\* MalformedArgumentError; the token it reports is the first without "=",
\* which is that "--" when every token before it splits.
C24_SecondSeparatorMalformed ==
    (lastOp = "parse_commandline" /\ LaterSeparators # {}) =>
        /\ pc = "failed"
        /\ err.kind = "MalformedArgumentError"
        /\ err.arg = FirstUnsplit

\* parse_commandline reported a "--" as the token that does not split: a
\* separator stands before it.
C24_Witness_SecondSeparatorReported ==
    /\ lastOp = "parse_commandline"
    /\ LaterSeparators # {}
    /\ err.kind = "MalformedArgumentError"
    /\ err.arg = Separator


\* The command line holds no "--" at all.
NoSeparator == \A i \in 1..Len(Tokens) : Tokens[i] # Separator

\* What parse_commandline makes of the command line with a "--" appended.
WithSeparatorAppended ==
    parse_commandline(Len(argv) + 1, Append(argv, Separator), config)

\* parse_commandline left what it leaves on the command line with a "--"
\* appended: the same Args or the same error.
AsIfSeparatorAppended ==
    /\ (pc = "parsed") = WithSeparatorAppended.ok
    /\ err = WithSeparatorAppended.err
    /\ m_job_id = WithSeparatorAppended.job_id
    /\ m_repetition_id = WithSeparatorAppended.repetition_id
    /\ m_args = WithSeparatorAppended.args

\* Every token has an "=" and the keys are the two id keys and no other.
OnlyIdKeys ==
    /\ AllTokensSplit
    /\ RegionKeys(1..Len(Tokens)) = { config.job_id_key, config.repetition_id_key }

\* C25 as stated: without a "--" every token is a special argument and the
\* normal region is empty; parse_commandline succeeds, with an empty
\* remaining map, exactly when the keys of the tokens are the job-id key and
\* the repetition-id key only, and otherwise fails as if a "--" had been
\* appended.
C25_Original_SucceedsIffOnlyIdKeys ==
    (lastOp = "parse_commandline" /\ NoSeparator) =>
        /\ AsIfSeparatorAppended
        /\ (pc = "parsed") <=> OnlyIdKeys
        /\ pc = "parsed" => m_args = EmptyMap

\* C25, amended: without a "--" every token is a special argument and the
\* normal region is empty; parse_commandline does what it does with a "--"
\* appended; it succeeds only when the keys of the tokens are the job-id key
\* and the repetition-id key only, the remaining map being empty then, and
\* with such keys it either succeeds or fails with InvalidIdError for a
\* value that does not convert.
C25_NoSeparator ==
    (lastOp = "parse_commandline" /\ NoSeparator) =>
        /\ AsIfSeparatorAppended
        /\ pc = "parsed" => (OnlyIdKeys /\ m_args = EmptyMap)
        /\ OnlyIdKeys => (pc = "parsed" \/ err.kind = "InvalidIdError")

\* parse_commandline returned an Args with an empty map for a command line
\* of two id tokens and no "--".
C25_Witness_TwoIdTokens ==
    /\ lastOp = "parse_commandline"
    /\ NoSeparator
    /\ pc = "parsed"
    /\ Len(Tokens) = 2
    /\ m_args = EmptyMap

\* ------------------------------------------------------------------------
\* Keys that occur more than once
\* ------------------------------------------------------------------------

\* Id tokens with two values each, and normal tokens with a key twice.
RepeatSpecialPool ==
    { << "-", "-", "i", "d", "=", "4" >>,
      << "-", "-", "i", "d", "=", "5" >>,
      << "-", "-", "r", "e", "p", "=", "7" >>,
      << "-", "-", "r", "e", "p", "=", "8" >> }

RepeatNormalPool ==
    { << "a", "=", "1" >>,
      << "a", "=", "2" >>,
      << "b", "=" >> }

RepeatArgvSet ==
    { << << "s", "e", "l", "f" >> >> \o sp \o mid \o no :
        sp  \in SeqsUpTo(RepeatSpecialPool, MaxSpecial + 1),
        mid \in { << >>, << Separator >> },
        no  \in SeqsUpTo(RepeatNormalPool, MaxNormal) }

InitRepeats == StartedWith(RepeatArgvSet)

NextRepeats ==
    \/ ParseCommandline
    \/ \E name \in ArgNames : GetS(name)
    \/ NoFurtherArguments

SpecRepeats == InitRepeats /\ [][NextRepeats]_vars

\* The positions of a region whose token carries the key.
Occurrences(positions, key) ==
    { i \in positions : HasEquals(Tokens[i]) /\ TextBeforeEquals(Tokens[i]) = key }

\* The Args parse_commandline returned holds, for the ids and for every
\* normal key, the value of the last token that carries the key.
LastOccurrenceDecides ==
    /\ m_job_id = DecimalValue(JobIdValue, Len(JobIdValue)).limbs
    /\ m_repetition_id = DecimalValue(RepetitionIdValue, Len(RepetitionIdValue)).limbs
    /\ Keys(normal0) = RegionKeys(NormalPositions)
    /\ \A k \in Keys(normal0) : normal0[k] = LastValue(NormalPositions, k)

\* C26: a key that occurs in several tokens of a region is no error: on a
\* command line with both id keys, no other special key and well-formed
\* values, however often the keys occur, parse_commandline returns an Args;
\* the ids are the values of the last id tokens and every normal key is in
\* the remaining map once, with the value of its last token.
C26_LastOccurrenceWins ==
    ( /\ lastOp = "parse_commandline"
      /\ AllTokensSplit
      /\ RegionKeys(SpecialPositions) = { config.job_id_key, config.repetition_id_key }
      /\ IsDecimalId(JobIdValue)
      /\ IsDecimalId(RepetitionIdValue) )
    => (pc = "parsed" /\ LastOccurrenceDecides)

\* parse_commandline returned an Args for a command line with two job-id
\* tokens of different values and a normal key with two values.
C26_Witness_RepeatedKeys ==
    /\ lastOp = "parse_commandline"
    /\ pc = "parsed"
    /\ Cardinality({ TextAfterEquals(Tokens[i]) :
                       i \in Occurrences(SpecialPositions, config.job_id_key) }) = 2
    /\ \E k \in Keys(normal0) :
          Cardinality({ TextAfterEquals(Tokens[i]) :
                          i \in Occurrences(NormalPositions, k) }) = 2

\* ------------------------------------------------------------------------
\* What the calls on an Args leave alone
\* ------------------------------------------------------------------------

\* Every entry of m is an entry of n.
SubMap(m, n) ==
    /\ Keys(m) \subseteq Keys(n)
    /\ \A k \in Keys(m) : m[k] = n[k]

\* The step removed from the map exactly the entry of the name it was
\* called with, and touched no other entry.
RemovedNamedKeyOnly ==
    /\ lastOp' \in { "get_s", "get_i", "get_u", "get_d", "get_b" }
    /\ lastName' \in Keys(m_args)
    /\ Keys(m_args') = Keys(m_args) \ { lastName' }
    /\ \A k \in Keys(m_args') : m_args'[k] = m_args[k]

\* A step on an Args keeps the ids, and keeps the map or removes the named
\* entry from it.
ArgsStep ==
    /\ m_job_id' = m_job_id
    /\ m_repetition_id' = m_repetition_id
    /\ normal0' = normal0
    /\ (m_args' = m_args \/ RemovedNamedKeyOnly)

\* C27: through every sequence of get_* and no_further_arguments calls on
\* an Args, failing calls included, job_id and repetition_id stay what they
\* were at construction, the remaining map is always a sub-map of the map
\* given at construction, and a call changes the map only by removing the
\* entry of the one key it names.
C27_ArgsOnlyShrinks ==
    /\ [](pc = "parsed" => SubMap(m_args, normal0))
    /\ [][pc = "parsed" => ArgsStep]_vars

\* After a successful and a failed extraction, no_further_arguments ran on
\* an Args that has lost one of its two entries.
C27_Witness_OneKeyLeft ==
    /\ pc = "parsed"
    /\ lastOp = "no_further_arguments"
    /\ extracted # {}
    /\ requested \ extracted # {}
    /\ Cardinality(Keys(normal0)) = 2
    /\ Cardinality(Keys(m_args)) = 1

\* ------------------------------------------------------------------------
\* The Go port run next to the C++ program
\* ------------------------------------------------------------------------

\* The tokens of the command lines handed to both implementations.
PortSpecialPool ==
    { << "-", "-", "i", "d", "=", "4" >>,
      << "-", "-", "i", "d", "=", "0", "1", "0" >>,
      << "-", "-", "i", "d", "=", "-", "5" >>,
      << "-", "-", "i", "d", "=", "0", "x", "1", "F" >>,
      << "-", "-", "i", "d", "=", "x" >>,
      << "-", "-", "r", "e", "p", "=", "7" >>,
      << "-", "-", "r", "e", "p", "=", "y" >>,
      << "-", "-", "i", "d" >> }

PortNormalPool ==
    { << "z", "=", "b", "=", "c" >>,
      << "b", "=" >>,
      << "x" >> }

PortArgvSet ==
    { << << "s", "e", "l", "f" >> >> \o sp \o mid \o no :
        sp  \in SeqsUpTo(PortSpecialPool, MaxSpecial),
        mid \in { << >>, << Separator >> },
        no  \in SeqsUpTo(PortNormalPool, MaxNormal) }

InitPort == StartedWith(PortArgvSet)

\* What a Go call leaves in the state of the port.
GoReturned(args, e, value) ==
    /\ goArgs' = args
    /\ goErr' = e
    /\ goValue' = value

\* Both programs parse the command line; the Go program gets the tokens
\* after the program name.
PortParse ==
    /\ ParseCall
    /\ GoReturned(GoParseCommandline(Tail(argv), config).args,
                  GoParseCommandline(Tail(argv), config).err, << >>)

\* Both programs hold an Args they got without an error.
BothParsed ==
    /\ pc = "parsed"
    /\ ~goArgs.nil
    /\ GoParseCommandline(Tail(argv), config).err = "nil"

\* Both programs ask for the same name.
PortGetStr(name) ==
    /\ BothParsed
    /\ GetCall("get_s", name, get_s(m_args, name))
    /\ GoReturned(GetStr(goArgs, name).args, GetStr(goArgs, name).err,
                  GetStr(goArgs, name).value)

\* Both programs check that nothing is left.
PortNoFurtherArguments ==
    /\ BothParsed
    /\ NoFurtherCall
    /\ GoReturned(goArgs, GoNoFurtherArguments(goArgs), << >>)

NextPort ==
    \/ PortParse
    \/ \E name \in ArgNames : PortGetStr(name)
    \/ PortNoFurtherArguments

SpecPort == InitPort /\ [][NextPort]_vars

\* The int of the Go port and the ID of the C++ program are the same number.
SameId(goInt, id) == ~goInt.neg /\ goInt.mag = id \o ZeroLimbs(ULongLimbs - IDLimbs)

\* C28: the Go port and the C++ implementation, given the same tokens after
\* the program name and the same calls, agree at every step: the step
\* succeeds in both or fails in both, parse_commandline and ParseCommandline
\* give equal ids, and get_s and GetStr return equal strings.
C28_PortEquivalent ==
    /\ lastOp = "parse_commandline" =>
          /\ (pc = "parsed") <=> (goErr = "nil")
          /\ pc = "parsed" =>
                /\ SameId(goArgs.JobID, m_job_id)
                /\ SameId(goArgs.RepetitionID, m_repetition_id)
    /\ lastOp = "get_s" =>
          /\ (err = NoError) <=> (goErr = "nil")
          /\ err = NoError => ret.s = goValue
    /\ lastOp = "no_further_arguments" =>
          (err = NoError) <=> (goErr = "nil")

\* ------------------------------------------------------------------------
\* Two threads that run get_s on one Args without synchronization
\* ------------------------------------------------------------------------

\* The maps of the shared Args.
SharedMaps ==
    UNION { [K -> { << "1" >>, << "2" >> }] : K \in SUBSET DirectKeys }

InitThreads ==
    /\ argv = << >>
    /\ config = DefaultConfig
    /\ pc = "parsed"
    /\ m_job_id = << 4, 0 >>
    /\ m_repetition_id = << 7, 0 >>
    /\ m_args \in SharedMaps
    /\ err = NoError
    /\ ret = NoReturn
    /\ lastOp = "Args"
    /\ lastName = << >>
    /\ normal0 = m_args
    /\ requested = {}
    /\ extracted = {}
    /\ NoBuilder
    /\ NoPort
    /\ NoCallers

\* What the thread steps leave alone.
ThreadFrame ==
    /\ UNCHANGED << argv, config, pc, m_job_id, m_repetition_id, err, ret,
                    lastOp, lastName, normal0, requested, extracted >>
    /\ UNCHANGED builderVars
    /\ UNCHANGED portVars

\* get_s up to the copy of the value: m_args.find(name), the throw when
\* the name is absent, result = result_it->second.
LookedUp(m, name) ==
    IF name \notin Keys(m)
    THEN [pc |-> "threw", name |-> name, result |-> << >>, valid |-> FALSE]
    ELSE [pc |-> "found", name |-> name, result |-> m[name], valid |-> TRUE]

\* Thread t enters get_s(name) and looks the name up.
Lookup(t, name) ==
    /\ callers[t].pc = "idle"
    /\ callers' = [callers EXCEPT ![t] = LookedUp(m_args, name)]
    /\ overlapped' = (overlapped \/ \E u \in Threads \ {t} : callers[u].pc = "found")
    /\ UNCHANGED m_args
    /\ ThreadFrame

\* The locals of the threads after t erased its element: the erase
\* invalidates every iterator to that element.
AfterErase(t) ==
    [u \in Threads |->
        IF u = t THEN [callers[t] EXCEPT !.pc = "returned", !.valid = FALSE]
        ELSE IF callers[u].name = callers[t].name
        THEN [callers[u] EXCEPT !.valid = FALSE]
        ELSE callers[u]]

\* Thread t runs m_args.erase(result_it) with a valid iterator and returns
\* its copy of the value.
Erase(t) ==
    /\ callers[t].pc = "found"
    /\ callers[t].valid
    /\ m_args' = MapErase(m_args, callers[t].name)
    /\ callers' = AfterErase(t)
    /\ UNCHANGED overlapped
    /\ ThreadFrame

\* What an erase through an invalidated iterator can do: it is undefined.
DanglingOutcomes == { "crash", "nothing", "corrupt" }

\* Thread t runs m_args.erase(result_it) after the other thread erased the
\* element: the process crashes, or the call returns with the map as it
\* was, or it returns with the map destroyed.
DanglingErase(t, outcome) ==
    /\ callers[t].pc = "found"
    /\ ~callers[t].valid
    /\ m_args' = IF outcome = "corrupt" THEN EmptyMap ELSE m_args
    /\ callers' =
          [u \in Threads |->
              IF u = t
              THEN [callers[t] EXCEPT
                      !.pc = IF outcome = "crash" THEN "crashed" ELSE "returned"]
              ELSE IF outcome = "corrupt"
              THEN [callers[u] EXCEPT !.valid = FALSE]
              ELSE callers[u]]
    /\ UNCHANGED overlapped
    /\ ThreadFrame

NextThreads ==
    \/ \E t \in Threads, name \in ArgNames : Lookup(t, name)
    \/ \E t \in Threads : Erase(t)
    \/ \E t \in Threads, outcome \in DanglingOutcomes : DanglingErase(t, outcome)

SpecThreads == InitThreads /\ [][NextThreads]_vars

\* Thread t got a value back from get_s.
Obtained(t) == callers[t].pc = "returned"

\* Both threads got a value back for the same name.
BothObtained ==
    /\ \A t \in Threads : Obtained(t)
    /\ callers[1].name = callers[2].name

\* C29: get_s is not safe for two unsynchronized callers.  A caller that
\* has looked a name up holds the value the Args was constructed with, so two
\* callers whose lookups both come before the first erase both hold it, and
\* both can get it back; when the calls do not overlap, at most one caller
\* gets the value of a name back.
C29_ConsumeOnceNeedsOneCaller ==
    /\ \A t \in Threads :
          callers[t].pc \in { "found", "returned" } =>
             /\ callers[t].name \in Keys(normal0)
             /\ callers[t].result = normal0[callers[t].name]
    /\ BothObtained => overlapped

\* An interleaving in which both callers got the value of the same name.
C29_Witness_BothObtained ==
    /\ BothObtained
    /\ overlapped
    /\ callers[1].result = normal0[callers[1].name]
    /\ callers[2].result = normal0[callers[2].name]

\* ------------------------------------------------------------------------
\* The first element of the argument vector
\* ------------------------------------------------------------------------

\* What argv[0] can be: a program name, and texts that look like tokens.
ProgramNames ==
    { << "s", "e", "l", "f" >>,
      << "-", "-", "i", "d", "=", "9" >>,
      << "-", "-" >>,
      << "x" >>,
      << >> }

\* The tokens that follow it.
ProgramNameSpecialPool ==
    { << "-", "-", "i", "d", "=", "4" >>,
      << "-", "-", "r", "e", "p", "=", "7" >>,
      << "-", "-", "z", "z", "=", "0" >>,
      << "x" >> }

ProgramNameNormalPool ==
    { << "b", "=" >>,
      << "x" >> }

ProgramNameArgvSet ==
    { << name >> \o sp \o mid \o no :
        name \in ProgramNames,
        sp   \in SeqsUpTo(ProgramNameSpecialPool, MaxSpecial),
        mid  \in { << >>, << Separator >> },
        no   \in SeqsUpTo(ProgramNameNormalPool, MaxNormal) }

InitProgramName == StartedWith(ProgramNameArgvSet)

NextProgramName ==
    \/ ParseCommandline
    \/ \E name \in ArgNames : GetS(name)
    \/ NoFurtherArguments

SpecProgramName == InitProgramName /\ [][NextProgramName]_vars

\* What parse_commandline gives for the argument vector of the state with
\* its first element replaced by name.
WithProgramName(name) ==
    parse_commandline(Len(argv), << name >> \o Tail(argv), config)

\* parse_commandline left in the state what r describes: the same Args or
\* the same error.
LeftOutcome(r) ==
    /\ (pc = "parsed") = r.ok
    /\ err = r.err
    /\ m_job_id = r.job_id
    /\ m_repetition_id = r.repetition_id
    /\ m_args = r.args

====
